---- MODULE Spec2Model ----
(***************************************************************************)
(* The HTML <-> Markdown converter of canvas_cli/converters.py as a state  *)
(* machine.  A document buffer is a TLA+ string; every regular expression  *)
(* of the source is an operator that computes what re.sub computes for it  *)
(* (leftmost, non-overlapping matches, greedy and lazy quantifiers in the  *)
(* backtracking order of Python's re).  One call of html_to_markdown or    *)
(* markdown_to_html runs as a sequence of stage actions over the buffer.   *)
(***************************************************************************)
EXTENDS Integers, Sequences, FiniteSets, TLC

VARIABLES fn, arg, pc, text, html_tables, code_blocks, inline_codes,
          lines, in_ul, in_ol, result_lines, para_buffer, ret, upstream,
          parked, cwd, files, requests, page_url, params, response, item_index, server

vars == <<fn, arg, pc, text, html_tables, code_blocks, inline_codes,
          lines, in_ul, in_ol, result_lines, para_buffer, ret, upstream,
          parked, cwd, files, requests, page_url, params, response, item_index, server>>

\* the locals of CanvasAPI._paginate and the pages the server holds
paging == <<page_url, params, response, item_index, server>>

\* no pagination is in progress
NoPaging ==
    /\ page_url = ""
    /\ params = <<>>
    /\ response = <<>>
    /\ item_index = 0
    /\ server = <<>>

\* what a statement of a conversion call cannot name: the local variables of
\* the other calls in progress, the working directory, the files on disk and
\* the requests sent to the Canvas server
outside == <<parked, cwd, files, requests, paging>>

\* the converters read no file and send no request
NoFiles ==
    /\ cwd = <<>>
    /\ files = <<>>
    /\ requests = <<>>
    /\ NoPaging

----------------------------------------------------------------------------
(* Strings                                                                 *)

NL == "\n"

\* The grave accent (U+0060) cannot be written in a TLA+ string literal: the
\* model writes it "~", a character that no pattern of the source mentions
\* and no input of the model holds.
BT == "~"

Fence == BT \o BT \o BT

\* the value of F at x, with x worked out once before F is applied
Then(x, F(_)) == CHOOSE r \in {F(v) : v \in {x}} : TRUE

Ch(s, i) == SubSeq(s, i, i)

\* s[from:] of Python (1-based here)
From(s, from) == SubSeq(s, from, Len(s))

\* s.startswith(lit, i-1)
At(s, i, lit) ==
    /\ i >= 1
    /\ i + Len(lit) - 1 <= Len(s)
    /\ SubSeq(s, i, i + Len(lit) - 1) = lit

Min(S) == CHOOSE m \in S : \A n \in S : m <= n

Max(S) == CHOOSE m \in S : \A n \in S : n <= m

\* s.find(lit, from-1) + 1: the first position >= from where lit occurs, 0 if none
Find(s, lit, from) ==
    LET hits == {i \in from..(Len(s) - Len(lit) + 1) : SubSeq(s, i, i + Len(lit) - 1) = lit}
    IN  IF hits = {} THEN 0 ELSE Min(hits)

Contains(s, lit) == Find(s, lit, 1) > 0

\* s.count(lit): non-overlapping occurrences, left to right
RECURSIVE CountFrom(_, _, _)
CountFrom(s, lit, origin) ==
    Then(origin, LAMBDA from :
      LET i == Find(s, lit, from)
      IN  IF i = 0 THEN 0 ELSE 1 + CountFrom(s, lit, i + Len(lit)))

Count(s, lit) == CountFrom(s, lit, 1)

\* str.replace(old, new)
RECURSIVE ReplaceFrom(_, _, _, _)
ReplaceFrom(s, old, new, origin) ==
    Then(origin, LAMBDA from :
      LET i == Find(s, old, from)
      IN  IF i = 0 THEN From(s, from)
          ELSE SubSeq(s, from, i - 1) \o new \o ReplaceFrom(s, old, new, i + Len(old)))

Replace(s, old, new) == ReplaceFrom(s, old, new, 1)

UpperToLower ==
    [c \in {"A", "B", "C", "D", "E", "F", "G", "H", "I", "J", "K", "L", "M",
            "N", "O", "P", "Q", "R", "S", "T", "U", "V", "W", "X", "Y", "Z"} |->
        CASE c = "A" -> "a" [] c = "B" -> "b" [] c = "C" -> "c" [] c = "D" -> "d"
          [] c = "E" -> "e" [] c = "F" -> "f" [] c = "G" -> "g" [] c = "H" -> "h"
          [] c = "I" -> "i" [] c = "J" -> "j" [] c = "K" -> "k" [] c = "L" -> "l"
          [] c = "M" -> "m" [] c = "N" -> "n" [] c = "O" -> "o" [] c = "P" -> "p"
          [] c = "Q" -> "q" [] c = "R" -> "r" [] c = "S" -> "s" [] c = "T" -> "t"
          [] c = "U" -> "u" [] c = "V" -> "v" [] c = "W" -> "w" [] c = "X" -> "x"
          [] c = "Y" -> "y" [] c = "Z" -> "z"]

\* the buffer as re.IGNORECASE sees it: same length, letters folded
\* (the characters lo..hi of s, by halves)
RECURSIVE LowerRange(_, _, _)
LowerRange(s, low, high) ==
    Then(low, LAMBDA lo :
      Then(high, LAMBDA hi :
        IF lo > hi THEN ""
        ELSE IF lo = hi
        THEN LET c == Ch(s, lo)
             IN  IF c \in DOMAIN UpperToLower THEN UpperToLower[c] ELSE c
        ELSE LET mid == (lo + hi) \div 2
             IN  LowerRange(s, lo, mid) \o LowerRange(s, mid + 1, hi)))

Lower(s) == LowerRange(s, 1, Len(s))

IsSpace(c) == c \in {" ", "\n", "\t", "\r"}

Digits == {"0", "1", "2", "3", "4", "5", "6", "7", "8", "9"}

\* str.strip(): from the first to the last character that is not whitespace
Strip(s) ==
    LET solid == {i \in 1..Len(s) : ~IsSpace(Ch(s, i))}
    IN  IF solid = {} THEN "" ELSE SubSeq(s, Min(solid), Max(solid))

\* str.split('\n')
RECURSIVE SplitFrom(_, _)
SplitFrom(s, origin) ==
    Then(origin, LAMBDA from :
      LET i == Find(s, NL, from)
      IN  IF i = 0 THEN <<From(s, from)>>
          ELSE <<SubSeq(s, from, i - 1)>> \o SplitFrom(s, i + 1))

Split(s) == SplitFrom(s, 1)

\* '\n'.join(ls)
RECURSIVE Join(_, _)
Join(items, sep) ==
    Then(items, LAMBDA ls :
      IF Len(ls) = 0 THEN ""
      ELSE IF Len(ls) = 1 THEN ls[1]
      ELSE ls[1] \o sep \o Join(Tail(ls), sep))

\* str(i) of a fragment index
RECURSIVE Str(_)
Str(i) ==
    IF i >= 10 THEN Str(i \div 10) \o Str(i % 10)
    ELSE CASE i = 0 -> "0" [] i = 1 -> "1" [] i = 2 -> "2" [] i = 3 -> "3" [] i = 4 -> "4"
           [] i = 5 -> "5" [] i = 6 -> "6" [] i = 7 -> "7" [] i = 8 -> "8" [] i = 9 -> "9"

----------------------------------------------------------------------------
(* Regular expressions of the source.  A match is a record: ok, the first  *)
(* and last position of the whole match (start, end), and the first and    *)
(* last position of each group.                                            *)

NoMatch == [ok |-> FALSE]

\* <name[^>]*>(.*?)</name> with re.DOTALL | re.IGNORECASE, searched from position from.
\* [^>]* cannot cross a ">", so the opening tag ends at the first ">" after
\* "<name"; .*? stops at the first closing tag after it.  ls is Lower(s).
ElemSearch(s, ls, name, from) ==
    LET i == Find(ls, "<" \o name, from)
        j == IF i = 0 THEN 0 ELSE Find(s, ">", i + Len(name) + 1)
        close == "</" \o name \o ">"
        k == IF j = 0 THEN 0 ELSE Find(ls, close, j + 1)
    IN  IF k = 0 THEN NoMatch
        ELSE [ok |-> TRUE, start |-> i, end |-> k + Len(close) - 1,
              g1s |-> j + 1, g1e |-> k - 1]

\* re.sub(r'<name[^>]*>(.*?)</name>', pre + r'\1' + post, s)
RECURSIVE ElemSubFrom(_, _, _, _, _, _)
ElemSubFrom(s, folded, name, pre, post, origin) ==
    Then(folded, LAMBDA ls :
      Then(origin, LAMBDA from :
        LET m == ElemSearch(s, ls, name, from)
        IN  IF ~m.ok THEN From(s, from)
            ELSE SubSeq(s, from, m.start - 1) \o pre \o SubSeq(s, m.g1s, m.g1e) \o post
                 \o ElemSubFrom(s, ls, name, pre, post, m.end + 1)))

ElemSub(s, name, pre, post) == ElemSubFrom(s, Lower(s), name, pre, post, 1)

\* re.sub(r'<name[^>]*>.*?</name>', '', s): the element and its content go
RECURSIVE ElemRemoveFrom(_, _, _, _)
ElemRemoveFrom(s, folded, name, origin) ==
    Then(folded, LAMBDA ls :
      Then(origin, LAMBDA from :
        LET m == ElemSearch(s, ls, name, from)
        IN  IF ~m.ok THEN From(s, from)
            ELSE SubSeq(s, from, m.start - 1) \o ElemRemoveFrom(s, ls, name, m.end + 1)))

ElemRemove(s, name) == ElemRemoveFrom(s, Lower(s), name, 1)

\* re.sub(r'<name[^>]*/?>', new, s, flags=re.IGNORECASE): one tag, any attributes
RECURSIVE TagSubFrom(_, _, _, _, _)
TagSubFrom(s, folded, name, new, origin) ==
    Then(folded, LAMBDA ls :
      Then(origin, LAMBDA from :
        LET i == Find(ls, "<" \o name, from)
            j == IF i = 0 THEN 0 ELSE Find(s, ">", i + Len(name) + 1)
        IN  IF j = 0 THEN From(s, from)
            ELSE SubSeq(s, from, i - 1) \o new \o TagSubFrom(s, ls, name, new, j + 1)))

TagSub(s, name, new) == TagSubFrom(s, Lower(s), name, new, 1)

\* re.sub(lit, new, s, flags=re.IGNORECASE) for a literal pattern
RECURSIVE LitSubFrom(_, _, _, _, _)
LitSubFrom(s, folded, lit, new, origin) ==
    Then(folded, LAMBDA ls :
      Then(origin, LAMBDA from :
        LET i == Find(ls, lit, from)
        IN  IF i = 0 THEN From(s, from)
            ELSE SubSeq(s, from, i - 1) \o new \o LitSubFrom(s, ls, lit, new, i + Len(lit))))

LitSubCI(s, lit, new) == LitSubFrom(s, Lower(s), lit, new, 1)

\* re.sub(r'<[^>]+>', '', s): "<", one or more characters other than ">", ">"
RECURSIVE StripTagsFrom(_, _)
StripTagsFrom(s, origin) ==
    Then(origin, LAMBDA from :
      LET i == Find(s, "<", from)
          j == IF i = 0 THEN 0 ELSE Find(s, ">", i + 1)
      IN  IF j = 0 THEN From(s, from)
          ELSE IF j = i + 1 THEN SubSeq(s, from, i) \o StripTagsFrom(s, i + 1)
          ELSE SubSeq(s, from, i - 1) \o StripTagsFrom(s, j + 1))

StripTags(s) == StripTagsFrom(s, 1)

\* the end of the run of character c that starts at i
RunEnd(s, c, i) ==
    LET others == {j \in i..Len(s) : Ch(s, j) # c}
    IN  IF others = {} THEN Len(s) ELSE Min(others) - 1

\* re.sub(r'\n{3,}', '\n\n', s)
RECURSIVE CollapseNewlinesFrom(_, _)
CollapseNewlinesFrom(s, origin) ==
    Then(origin, LAMBDA from :
      LET i == Find(s, NL, from)
          e == RunEnd(s, NL, i)
      IN  IF i = 0 THEN From(s, from)
          ELSE SubSeq(s, from, i - 1)
               \o (IF e - i + 1 >= 3 THEN NL \o NL ELSE SubSeq(s, i, e))
               \o CollapseNewlinesFrom(s, e + 1))

CollapseNewlines(s) == CollapseNewlinesFrom(s, 1)

\* re.sub(r' +', ' ', s)
RECURSIVE CollapseSpacesFrom(_, _)
CollapseSpacesFrom(s, origin) ==
    Then(origin, LAMBDA from :
      LET i == Find(s, " ", from)
      IN  IF i = 0 THEN From(s, from)
          ELSE SubSeq(s, from, i) \o CollapseSpacesFrom(s, RunEnd(s, " ", i) + 1))

CollapseSpaces(s) == CollapseSpacesFrom(s, 1)

\* html.unescape(s), for the named references amp, lt, gt and quot, with or
\* without the closing ";" (html.entities.html5 lists both forms, and a longer
\* name falls back to its longest listed prefix); every other "&" is kept.
EntityNames == <<"amp", "quot", "lt", "gt">>

EntityChar(name) ==
    CASE name = "amp" -> "&" [] name = "quot" -> "\"" [] name = "lt" -> "<" [] name = "gt" -> ">"

RECURSIVE UnescapeFrom(_, _)
UnescapeFrom(s, origin) ==
    Then(origin, LAMBDA from :
      LET i == Find(s, "&", from)
          hits == {n \in 1..Len(EntityNames) : At(s, i + 1, EntityNames[n])}
      IN  IF i = 0 THEN From(s, from)
          ELSE IF hits = {} THEN SubSeq(s, from, i) \o UnescapeFrom(s, i + 1)
          ELSE LET name == EntityNames[CHOOSE n \in hits : TRUE]
                   e == i + Len(name)
                   next == IF At(s, e + 1, ";") THEN e + 2 ELSE e + 1
               IN  SubSeq(s, from, i - 1) \o EntityChar(name) \o UnescapeFrom(s, next))

Unescape(s) == UnescapeFrom(s, 1)

\* the positions p in lo..hi where lit starts (in ls), hi capped by the text
Starts(ls, lit, lo, hi) == {p \in lo..hi : At(ls, p, lit)}

\* the last position [^>]* can reach from lo: up to, not including, the first ">"
TagReach(s, lo) ==
    LET g == Find(s, ">", lo) IN IF g = 0 THEN Len(s) ELSE g - 1

\* <a[^>]*href="([^"]*)"[^>]*>(.*?)</a> starting exactly at i (ls has "<a" at i).
\* The first [^>]* is greedy: the last href=" before the first ">" for which
\* the rest matches; [^"]* ends at the next quote, the tag at the next ">",
\* .*? at the first "</a>".
LinkMatchAt(s, ls, i) ==
    LET Rest(p) ==
            LET q == Find(s, "\"", p + 6)
                r == IF q = 0 THEN 0 ELSE Find(s, ">", q + 1)
                k == IF r = 0 THEN 0 ELSE Find(ls, "</a>", r + 1)
            IN  [ok |-> k > 0, start |-> i, end |-> k + 3,
                 g1s |-> p + 6, g1e |-> q - 1, g2s |-> r + 1, g2e |-> k - 1]
        cand == {p \in Starts(ls, "href=\"", i + 2, TagReach(s, i + 2)) : Rest(p).ok}
    IN  IF cand = {} THEN NoMatch ELSE Rest(Max(cand))

\* re.sub(r'<a[^>]*href="([^"]*)"[^>]*>(.*?)</a>', r'[\2](\1)', s)
RECURSIVE LinkSubFrom(_, _, _, _)
LinkSubFrom(s, folded, origin, probe) ==
    Then(folded, LAMBDA ls :
      Then(origin, LAMBDA from :
        Then(probe, LAMBDA scan :
          LET i == Find(ls, "<a", scan)
              m == LinkMatchAt(s, ls, i)
          IN  IF i = 0 THEN From(s, from)
              ELSE IF ~m.ok THEN LinkSubFrom(s, ls, from, i + 1)
              ELSE SubSeq(s, from, i - 1) \o "[" \o SubSeq(s, m.g2s, m.g2e) \o "]("
                   \o SubSeq(s, m.g1s, m.g1e) \o ")" \o LinkSubFrom(s, ls, m.end + 1, m.end + 1))))

LinkSub(s) == LinkSubFrom(s, Lower(s), 1, 1)

\* <img[^>]*src="([^"]*)"[^>]*alt="([^"]*)"[^>]*/?> starting exactly at i:
\* src=" must come first, alt=" after it, both inside the tag
ImgAltMatchAt(s, ls, i) ==
    LET Rest2(p1, q1, p2) ==
            LET q2 == Find(s, "\"", p2 + 5)
                r == IF q2 = 0 THEN 0 ELSE Find(s, ">", q2 + 1)
            IN  [ok |-> r > 0, start |-> i, end |-> r,
                 g1s |-> p1 + 5, g1e |-> q1 - 1, g2s |-> p2 + 5, g2e |-> q2 - 1]
        Rest1(p1) ==
            LET q1 == Find(s, "\"", p1 + 5)
                cand2 == IF q1 = 0 THEN {}
                         ELSE {p2 \in Starts(ls, "alt=\"", q1 + 1, TagReach(s, q1 + 1)) :
                                  Rest2(p1, q1, p2).ok}
            IN  IF cand2 = {} THEN NoMatch ELSE Rest2(p1, q1, Max(cand2))
        cand1 == {p1 \in Starts(ls, "src=\"", i + 4, TagReach(s, i + 4)) : Rest1(p1).ok}
    IN  IF cand1 = {} THEN NoMatch ELSE Rest1(Max(cand1))

\* <img[^>]*src="([^"]*)"[^>]*/?> starting exactly at i
ImgMatchAt(s, ls, i) ==
    LET Rest(p) ==
            LET q == Find(s, "\"", p + 5)
                r == IF q = 0 THEN 0 ELSE Find(s, ">", q + 1)
            IN  [ok |-> r > 0, start |-> i, end |-> r,
                 g1s |-> p + 5, g1e |-> q - 1, g2s |-> 1, g2e |-> 0]
        cand == {p \in Starts(ls, "src=\"", i + 4, TagReach(s, i + 4)) : Rest(p).ok}
    IN  IF cand = {} THEN NoMatch ELSE Rest(Max(cand))

\* re.sub(r'<img[^>]*src="([^"]*)"[^>]*alt="([^"]*)"[^>]*/?>', r'![\2](\1)', s)
RECURSIVE ImgAltSubFrom(_, _, _, _)
ImgAltSubFrom(s, folded, origin, probe) ==
    Then(folded, LAMBDA ls :
      Then(origin, LAMBDA from :
        Then(probe, LAMBDA scan :
          LET i == Find(ls, "<img", scan)
              m == ImgAltMatchAt(s, ls, i)
          IN  IF i = 0 THEN From(s, from)
              ELSE IF ~m.ok THEN ImgAltSubFrom(s, ls, from, i + 1)
              ELSE SubSeq(s, from, i - 1) \o "![" \o SubSeq(s, m.g2s, m.g2e) \o "]("
                   \o SubSeq(s, m.g1s, m.g1e) \o ")" \o ImgAltSubFrom(s, ls, m.end + 1, m.end + 1))))

ImgAltSub(s) == ImgAltSubFrom(s, Lower(s), 1, 1)

\* re.sub(r'<img[^>]*src="([^"]*)"[^>]*/?>', r'![](\1)', s)
RECURSIVE ImgSubFrom(_, _, _, _)
ImgSubFrom(s, folded, origin, probe) ==
    Then(folded, LAMBDA ls :
      Then(origin, LAMBDA from :
        Then(probe, LAMBDA scan :
          LET i == Find(ls, "<img", scan)
              m == ImgMatchAt(s, ls, i)
          IN  IF i = 0 THEN From(s, from)
              ELSE IF ~m.ok THEN ImgSubFrom(s, ls, from, i + 1)
              ELSE SubSeq(s, from, i - 1) \o "![](" \o SubSeq(s, m.g1s, m.g1e) \o ")"
                   \o ImgSubFrom(s, ls, m.end + 1, m.end + 1))))

ImgSub(s) == ImgSubFrom(s, Lower(s), 1, 1)

\* re.sub(r'<blockquote[^>]*>(.*?)</blockquote>',
\*        lambda m: '> ' + m.group(1).replace('\n', '\n> '), s)
RECURSIVE BlockquoteSubFrom(_, _, _)
BlockquoteSubFrom(s, folded, origin) ==
    Then(folded, LAMBDA ls :
      Then(origin, LAMBDA from :
        LET m == ElemSearch(s, ls, "blockquote", from)
        IN  IF ~m.ok THEN From(s, from)
            ELSE SubSeq(s, from, m.start - 1) \o "> "
                 \o Replace(SubSeq(s, m.g1s, m.g1e), NL, NL \o "> ")
                 \o BlockquoteSubFrom(s, ls, m.end + 1)))

BlockquoteSub(s) == BlockquoteSubFrom(s, Lower(s), 1)

\* <pre[^>]*><code[^>]*>(.*?)</code></pre> searched from scan: the opening
\* tags must be adjacent, the closing pair is the first "</code></pre>"
RECURSIVE PreCodeSubFrom(_, _, _, _)
PreCodeSubFrom(s, folded, origin, probe) ==
    Then(folded, LAMBDA ls :
      Then(origin, LAMBDA from :
        Then(probe, LAMBDA scan :
          LET i == Find(ls, "<pre", scan)
              j == IF i = 0 THEN 0 ELSE Find(s, ">", i + 4)
              c == IF j > 0 /\ At(ls, j + 1, "<code") THEN Find(s, ">", j + 6) ELSE 0
              k == IF c = 0 THEN 0 ELSE Find(ls, "</code></pre>", c + 1)
          IN  IF i = 0 THEN From(s, from)
              ELSE IF k = 0 THEN PreCodeSubFrom(s, ls, from, i + 1)
              ELSE SubSeq(s, from, i - 1) \o Fence \o NL \o SubSeq(s, c + 1, k - 1) \o NL \o Fence
                   \o PreCodeSubFrom(s, ls, k + 13, k + 13))))

PreCodeSub(s) == PreCodeSubFrom(s, Lower(s), 1, 1)

----------------------------------------------------------------------------
(* Fragment tables and placeholders                                        *)

\* f"__KIND_{i}__"
Placeholder(kind, i) == "__" \o kind \o "_" \o Str(i) \o "__"

\* f"<__HTML_TABLE_{i}__/>", the tag-shaped form markdown_to_html uses
TagPlaceholder(i) == "<" \o Placeholder("HTML_TABLE", i) \o "/>"

\* re.sub(r'<table[^>]*>.*?</table>', save_html_table, s): every match is
\* appended to the fragment table and replaced by the placeholder carrying
\* its index; n is len(html_tables) before the match
RECURSIVE ExtractTablesFrom(_, _, _, _, _)
ExtractTablesFrom(s, folded, tagged, origin, serial) ==
    Then(folded, LAMBDA ls :
      Then(origin, LAMBDA from :
        Then(serial, LAMBDA n :
          LET m == ElemSearch(s, ls, "table", from)
              ph == IF tagged THEN TagPlaceholder(n) ELSE Placeholder("HTML_TABLE", n)
          IN  IF ~m.ok THEN [text |-> From(s, from), frags |-> <<>>]
              ELSE Then(ExtractTablesFrom(s, ls, tagged, m.end + 1, n + 1), LAMBDA rest :
                     [text |-> SubSeq(s, from, m.start - 1) \o ph \o rest.text,
                      frags |-> <<SubSeq(s, m.start, m.end)>> \o rest.frags]))))

save_html_table(s, tagged) == ExtractTablesFrom(s, Lower(s), tagged, 1, 0)

\* for i, table in enumerate(html_tables):
\*     text = text.replace(f"__HTML_TABLE_{i}__", f"\n\n{table}\n\n")
RECURSIVE RestoreTablesH(_, _, _)
RestoreTablesH(buffer, tables, index) ==
    Then(buffer, LAMBDA t :
      Then(index, LAMBDA i :
        IF i > Len(tables) THEN t
        ELSE RestoreTablesH(Replace(t, Placeholder("HTML_TABLE", i - 1),
                                    NL \o NL \o tables[i] \o NL \o NL), tables, i + 1)))

----------------------------------------------------------------------------
(* html_to_markdown: the stages, in the order of the source                *)

H_Unescape(t) == Unescape(t)

H_StyleScript(t) ==
    LET style(v) == ElemRemove(v, "style")
        script(v) == ElemRemove(v, "script")
    IN  Then(Then(t, style), script)

H_Headers(t) ==
    LET h1(v) == ElemSub(v, "h1", "# ", NL)
        h2(v) == ElemSub(v, "h2", "## ", NL)
        h3(v) == ElemSub(v, "h3", "### ", NL)
        h4(v) == ElemSub(v, "h4", "#### ", NL)
        h5(v) == ElemSub(v, "h5", "##### ", NL)
        h6(v) == ElemSub(v, "h6", "###### ", NL)
    IN  Then(Then(Then(Then(Then(Then(t, h1), h2), h3), h4), h5), h6)

H_BoldItalic(t) ==
    LET strong(v) == ElemSub(v, "strong", "**", "**")
        b(v) == ElemSub(v, "b", "**", "**")
        em(v) == ElemSub(v, "em", "*", "*")
        i(v) == ElemSub(v, "i", "*", "*")
    IN  Then(Then(Then(Then(t, strong), b), em), i)

H_Links(t) == LinkSub(t)

H_Images(t) == Then(Then(t, ImgAltSub), ImgSub)

H_Lists(t) ==
    LET ul(v) == TagSub(v, "ul", NL)
        ulEnd(v) == LitSubCI(v, "</ul>", NL)
        li(v) == ElemSub(v, "li", "- ", NL)
        ol(v) == TagSub(v, "ol", NL)
        olEnd(v) == LitSubCI(v, "</ol>", NL)
    IN  Then(Then(Then(Then(Then(t, ul), ulEnd), li), ol), olEnd)

H_Blockquotes(t) == BlockquoteSub(t)

H_Code(t) ==
    LET code(v) == ElemSub(v, "code", BT, BT)
    IN  Then(Then(t, PreCodeSub), code)

H_Hr(t) == TagSub(t, "hr", NL \o "---" \o NL)

H_Paragraphs(t) ==
    LET p(v) == ElemSub(v, "p", "", NL \o NL)
        br(v) == TagSub(v, "br", NL)
    IN  Then(Then(t, p), br)

H_DivSpan(t) ==
    LET div(v) == ElemSub(v, "div", "", NL)
        span(v) == ElemSub(v, "span", "", "")
    IN  Then(Then(t, div), span)

H_StripTags(t) == StripTags(t)

H_CleanWhitespace(t) == Then(Then(Then(t, CollapseNewlines), CollapseSpaces), Strip)

H_RestoreTables(t, tables) == RestoreTablesH(t, tables, 1)

\* variant: the final pass collapses newlines and leaves the ends untouched
FinalCleanupNoStrip(t) == CollapseNewlines(t)

H_FinalCleanup(t) == Then(Then(t, CollapseNewlines), Strip)

----------------------------------------------------------------------------
(* markdown_to_html: the patterns and the stages                           *)

\* re.sub(r'FENCE\n?(.*?)\n?FENCE', save_code_block, s, flags=re.DOTALL), FENCE
\* being three grave accents: the body starts after the fence and one
\* optional newline and is the shortest text followed by an optional newline
\* and a fence; group 1 (the body) is what is saved.  n is len(code_blocks).
FenceEnd(s, b) ==
    LET ends == {k \in b..Len(s) : (Ch(s, k) = NL /\ At(s, k + 1, Fence)) \/ At(s, k, Fence)}
    IN  IF ends = {} THEN 0 ELSE Min(ends)

RECURSIVE ExtractCodeBlocksFrom(_, _, _)
ExtractCodeBlocksFrom(s, origin, serial) ==
    Then(origin, LAMBDA from :
      Then(serial, LAMBDA n :
        LET i == Find(s, Fence, from)
            b == IF At(s, i + 3, NL) THEN i + 4 ELSE i + 3
            k == IF i = 0 THEN 0 ELSE FenceEnd(s, b)
            e == IF Ch(s, k) = NL THEN k + 3 ELSE k + 2
        IN  IF k = 0 THEN [text |-> From(s, from), frags |-> <<>>]
            ELSE Then(ExtractCodeBlocksFrom(s, e + 1, n + 1), LAMBDA rest :
                   [text |-> SubSeq(s, from, i - 1) \o Placeholder("CODE_BLOCK", n) \o rest.text,
                    frags |-> <<SubSeq(s, b, k - 1)>> \o rest.frags])))

save_code_block(s) == ExtractCodeBlocksFrom(s, 1, 0)

\* re.sub(r'BT([^BT]+)BT', save_inline_code, s), BT the grave accent: a grave
\* accent, one or more other characters (newlines too), a grave accent
RECURSIVE ExtractInlineCodeFrom(_, _, _, _)
ExtractInlineCodeFrom(s, origin, probe, serial) ==
    Then(origin, LAMBDA from :
      Then(probe, LAMBDA scan :
        Then(serial, LAMBDA n :
          LET i == Find(s, BT, scan)
              j == IF i = 0 THEN 0 ELSE Find(s, BT, i + 1)
          IN  IF j = 0 THEN [text |-> From(s, from), frags |-> <<>>]
              ELSE IF j = i + 1 THEN ExtractInlineCodeFrom(s, from, i + 1, n)
              ELSE Then(ExtractInlineCodeFrom(s, j + 1, j + 1, n + 1), LAMBDA rest :
                     [text |-> SubSeq(s, from, i - 1) \o Placeholder("INLINE_CODE", n) \o rest.text,
                      frags |-> <<SubSeq(s, i + 1, j - 1)>> \o rest.frags]))))

save_inline_code(s) == ExtractInlineCodeFrom(s, 1, 1, 0)

\* a re.MULTILINE pattern anchored by ^ and $ rewrites whole lines: the
\* lines of s, each rewritten, joined again
Hashes(n) == SubSeq("######", 1, n)

\* ^#{n} (.+)$  ->  <hn>\1</hn>
HeaderLine(line, n) ==
    LET prefix == Hashes(n) \o " "
    IN  IF At(line, 1, prefix) /\ Len(line) > Len(prefix)
        THEN "<h" \o Str(n) \o ">" \o From(line, Len(prefix) + 1) \o "</h" \o Str(n) \o ">"
        ELSE line

HeaderSub(s, n) ==
    LET ls == Split(s)
    IN  Join([i \in 1..Len(ls) |-> HeaderLine(ls[i], n)], NL)

M_Headers(t) ==
    LET h6(v) == HeaderSub(v, 6)
        h5(v) == HeaderSub(v, 5)
        h4(v) == HeaderSub(v, 4)
        h3(v) == HeaderSub(v, 3)
        h2(v) == HeaderSub(v, 2)
        h1(v) == HeaderSub(v, 1)
    IN  Then(Then(Then(Then(Then(Then(t, h6), h5), h4), h3), h2), h1)

\* re.sub(d(.+?)d, pre \1 post, s) for a delimiter d of asterisks: after d,
\* the shortest non-empty text without a newline that is followed by d
RECURSIVE DelimSubFrom(_, _, _, _, _, _)
DelimSubFrom(s, d, pre, post, origin, probe) ==
    Then(origin, LAMBDA from :
      Then(probe, LAMBDA scan :
        LET i == Find(s, d, scan)
            b == i + Len(d)
            k == IF i = 0 THEN 0 ELSE Find(s, d, b + 1)
            nl == Find(s, NL, b)
            ok == k > 0 /\ (nl = 0 \/ nl > k)
        IN  IF i = 0 THEN From(s, from)
            ELSE IF ~ok THEN DelimSubFrom(s, d, pre, post, from, i + 1)
            ELSE SubSeq(s, from, i - 1) \o pre \o SubSeq(s, b, k - 1) \o post
                 \o DelimSubFrom(s, d, pre, post, k + Len(d), k + Len(d))))

DelimSub(s, d, pre, post) == DelimSubFrom(s, d, pre, post, 1, 1)

BoldItalicSub(t) == DelimSub(t, "***", "<strong><em>", "</em></strong>")

BoldSub(t) == DelimSub(t, "**", "<strong>", "</strong>")

ItalicSub(t) == DelimSub(t, "*", "<em>", "</em>")

\* triple, then double, then single asterisks
\* variant: the single-asterisk rule runs first
EmphasisSingleFirst(t) == Then(Then(Then(t, ItalicSub), BoldSub), BoldItalicSub)

M_Emphasis(t) == Then(Then(Then(t, BoldItalicSub), BoldSub), ItalicSub)

\* re.sub(r'!\[([^\]]*)\]\(([^)]+)\)', r'<img src="\2" alt="\1" />', s) with
\* open = "![" and minLabel = 0, and
\* re.sub(r'\[([^\]]+)\]\(([^)]+)\)', r'<a href="\2">\1</a>', s) with
\* open = "[" and minLabel = 1
RECURSIVE BracketSubFrom(_, _, _, _, _)
BracketSubFrom(s, open, minLabel, origin, probe) ==
    Then(origin, LAMBDA from :
      Then(probe, LAMBDA scan :
        LET i == Find(s, open, scan)
            b == i + Len(open)
            j == IF i = 0 THEN 0 ELSE Find(s, "]", b)
            k == IF j = 0 \/ ~At(s, j + 1, "(") THEN 0 ELSE Find(s, ")", j + 2)
            ok == j >= b + minLabel /\ k >= j + 3
            label == SubSeq(s, b, j - 1)
            url == SubSeq(s, j + 2, k - 1)
            new == IF open = "[" THEN "<a href=\"" \o url \o "\">" \o label \o "</a>"
                   ELSE "<img src=\"" \o url \o "\" alt=\"" \o label \o "\" />"
        IN  IF i = 0 THEN From(s, from)
            ELSE IF ~ok THEN BracketSubFrom(s, open, minLabel, from, i + 1)
            ELSE SubSeq(s, from, i - 1) \o new \o BracketSubFrom(s, open, minLabel, k + 1, k + 1)))

\* images before links
M_ImagesLinks(t) ==
    LET image(v) == BracketSubFrom(v, "![", 0, 1, 1)
        link(v) == BracketSubFrom(v, "[", 1, 1, 1)
    IN  Then(Then(t, image), link)

\* ^---+$  ->  <hr />
HrLine(line) ==
    IF Len(line) >= 3 /\ \A i \in 1..Len(line) : Ch(line, i) = "-" THEN "<hr />" ELSE line

M_Hr(t) ==
    LET ls == Split(t)
    IN  Join([i \in 1..Len(ls) |-> HrLine(ls[i])], NL)

\* ^> (.+)$  ->  <blockquote>\1</blockquote>
BlockquoteLine(line) ==
    IF At(line, 1, "> ") /\ Len(line) > 2
    THEN "<blockquote>" \o From(line, 3) \o "</blockquote>"
    ELSE line

M_Blockquotes(t) ==
    LET ls == Split(t)
    IN  Join([i \in 1..Len(ls) |-> BlockquoteLine(ls[i])], NL)

\* variant: only the dash marks a bullet
BulletDashOnly(stripped) == At(stripped, 1, "- ")

\* stripped.startswith('- ') or stripped.startswith('* ')
IsBullet(stripped) == At(stripped, 1, "- ") \/ At(stripped, 1, "* ")

\* the length of the prefix r'^\d+\. ' matches, 0 if it does not match
DigitsEnd(s) ==
    LET others == {i \in 1..Len(s) : Ch(s, i) \notin Digits}
    IN  IF others = {} THEN Len(s) + 1 ELSE Min(others)

NumberPrefix(stripped) ==
    LET e == DigitsEnd(stripped)
    IN  IF e > 1 /\ At(stripped, e, ". ") THEN e + 1 ELSE 0

\* re.match(r'^\d+\. ', stripped)
IsNumbered(stripped) == NumberPrefix(stripped) > 0

\* html.escape(code): &, <, > and both quotes
Escape(code) ==
    Replace(Replace(Replace(Replace(Replace(code, "&", "&amp;"), "<", "&lt;"),
                            ">", "&gt;"), "\"", "&quot;"), "'", "&#x27;")

\* for i, code in enumerate(frags):
\*     text = text.replace(f"__KIND_{i}__", open + html.escape(code) + close)
RECURSIVE RestoreCode(_, _, _, _, _, _)
RestoreCode(buffer, frags, kind, open, close, index) ==
    Then(buffer, LAMBDA t :
      Then(index, LAMBDA i :
        IF i > Len(frags) THEN t
        ELSE RestoreCode(Replace(t, Placeholder(kind, i - 1), open \o Escape(frags[i]) \o close),
                         frags, kind, open, close, i + 1)))

M_RestoreCode(t, blocks, inlines) ==
    LET block(v) == RestoreCode(v, blocks, "CODE_BLOCK", "<pre><code>", "</code></pre>", 1)
        inline(v) == RestoreCode(v, inlines, "INLINE_CODE", "<code>", "</code>", 1)
    IN  Then(Then(t, block), inline)

\* for i, table in enumerate(html_tables):
\*     text = text.replace(f"<__HTML_TABLE_{i}__/>", table)
RECURSIVE RestoreTablesM(_, _, _)
RestoreTablesM(buffer, tables, index) ==
    Then(buffer, LAMBDA t :
      Then(index, LAMBDA i :
        IF i > Len(tables) THEN t
        ELSE RestoreTablesM(Replace(t, TagPlaceholder(i - 1), tables[i]), tables, i + 1)))

M_RestoreTables(t, tables) == RestoreTablesM(t, tables, 1)

\* if in_ul: result_lines.append('</ul>')
\* if in_ol: result_lines.append('</ol>')
\* variant: only the unordered list is closed
CloseUnorderedOnly(ul, ol) == IF ul THEN <<"</ul>">> ELSE <<>>

close_lists(ul, ol) ==
    (IF ul THEN <<"</ul>">> ELSE <<>>) \o (IF ol THEN <<"</ol>">> ELSE <<>>)

\* stripped.startswith('<') and not one of the inline tags <a, <strong, <em, <img
IsBlockTagLine(stripped) ==
    /\ At(stripped, 1, "<")
    /\ ~At(stripped, 1, "<a")
    /\ ~At(stripped, 1, "<strong")
    /\ ~At(stripped, 1, "<em")
    /\ ~At(stripped, 1, "<img")

\* variant: only the last buffered line is flushed
FlushLastLine(buffer) ==
    IF Len(buffer) > 0 THEN <<"<p>" \o buffer[Len(buffer)] \o "</p>">> ELSE <<>>

\* flush_para(): the lines flush_para appends to result_lines
flush_para(buffer) ==
    IF Len(buffer) > 0 THEN <<"<p>" \o Join(buffer, " ") \o "</p>">> ELSE <<>>

----------------------------------------------------------------------------
(* The state machine.  One call is in progress at a time; pc names the     *)
(* stage that runs next.  upstream is the list of the calls whose result   *)
(* was passed on to reach this call's argument (the pull-then-push use of  *)
(* the converter), oldest first.                                           *)

H2M == "html_to_markdown"
M2H == "markdown_to_html"

\* local state of a call before its first statement
Fresh ==
    /\ text = ""
    /\ html_tables = <<>>
    /\ code_blocks = <<>>
    /\ inline_codes = <<>>
    /\ lines = <<>>
    /\ in_ul = FALSE
    /\ in_ol = FALSE
    /\ result_lines = <<>>
    /\ para_buffer = <<>>
    /\ ret = ""

UnchangedM == UNCHANGED <<code_blocks, inline_codes, lines, in_ul, in_ol,
                          result_lines, para_buffer>>

\* a stage that only rewrites the buffer
Rewrite(at, next, new) ==
    /\ pc = at
    /\ text' = new
    /\ pc' = next
    /\ UNCHANGED <<fn, arg, html_tables, ret, upstream, outside>>
    /\ UnchangedM

\* variant: the empty string is treated like any other input
EmptyNotShortCut(content) == FALSE

\* not html_content / not markdown_content
IsEmptyInput(content) == content = ""

\* if not html_content: return ""  /  text = html_content
H_Enter ==
    /\ pc = "call" /\ fn = H2M
    /\ IF IsEmptyInput(arg)
       THEN /\ pc' = "done"
            /\ UNCHANGED text
       ELSE /\ pc' = "h_extract"
            /\ text' = arg
    /\ UNCHANGED <<fn, arg, html_tables, ret, upstream, outside>>
    /\ UnchangedM

H_ExtractTables ==
    /\ pc = "h_extract"
    /\ LET saved == save_html_table(text, FALSE)
       IN  /\ text' = saved.text
           /\ html_tables' = html_tables \o saved.frags
    /\ pc' = "h_unescape"
    /\ UNCHANGED <<fn, arg, ret, upstream, outside>>
    /\ UnchangedM

H_DecodeEntities == Rewrite("h_unescape", "h_stylescript", H_Unescape(text))

H_RemoveStyleScript == Rewrite("h_stylescript", "h_headers", H_StyleScript(text))

H_RewriteHeaders == Rewrite("h_headers", "h_bolditalic", H_Headers(text))

H_RewriteBoldItalic == Rewrite("h_bolditalic", "h_links", H_BoldItalic(text))

H_RewriteLinks == Rewrite("h_links", "h_images", H_Links(text))

H_RewriteImages == Rewrite("h_images", "h_lists", H_Images(text))

H_RewriteLists == Rewrite("h_lists", "h_blockquotes", H_Lists(text))

H_RewriteBlockquotes == Rewrite("h_blockquotes", "h_code", H_Blockquotes(text))

H_RewriteCode == Rewrite("h_code", "h_hr", H_Code(text))

H_RewriteHr == Rewrite("h_hr", "h_paragraphs", H_Hr(text))

H_RewriteParagraphs == Rewrite("h_paragraphs", "h_divspan", H_Paragraphs(text))

H_UnwrapDivSpan == Rewrite("h_divspan", "h_striptags", H_DivSpan(text))

H_StripRemainingTags == Rewrite("h_striptags", "h_whitespace", H_StripTags(text))

H_NormalizeWhitespace == Rewrite("h_whitespace", "h_restore", H_CleanWhitespace(text))

\* restore the tables, the final cleanup, return text
H_Restore ==
    /\ pc = "h_restore"
    /\ LET restored == H_RestoreTables(text, html_tables)
           final == H_FinalCleanup(restored)
       IN  /\ text' = final
           /\ ret' = final
    /\ pc' = "done"
    /\ UNCHANGED <<fn, arg, html_tables, upstream, outside>>
    /\ UnchangedM

HtmlToMarkdown ==
    \/ H_Enter
    \/ H_ExtractTables
    \/ H_DecodeEntities
    \/ H_RemoveStyleScript
    \/ H_RewriteHeaders
    \/ H_RewriteBoldItalic
    \/ H_RewriteLinks
    \/ H_RewriteImages
    \/ H_RewriteLists
    \/ H_RewriteBlockquotes
    \/ H_RewriteCode
    \/ H_RewriteHr
    \/ H_RewriteParagraphs
    \/ H_UnwrapDivSpan
    \/ H_StripRemainingTags
    \/ H_NormalizeWhitespace
    \/ H_Restore

\* if not markdown_content: return ""  /  text = markdown_content
M_Enter ==
    /\ pc = "call" /\ fn = M2H
    /\ IF IsEmptyInput(arg)
       THEN /\ pc' = "done"
            /\ UNCHANGED text
       ELSE /\ pc' = "m_extract"
            /\ text' = arg
    /\ UNCHANGED <<fn, arg, html_tables, ret, upstream, outside>>
    /\ UnchangedM

M_ExtractTables ==
    /\ pc = "m_extract"
    /\ LET saved == save_html_table(text, TRUE)
       IN  /\ text' = saved.text
           /\ html_tables' = html_tables \o saved.frags
    /\ pc' = "m_code"
    /\ UNCHANGED <<fn, arg, ret, upstream, outside>>
    /\ UnchangedM

\* fenced code blocks, then inline code, each into its own table
M_ExtractCode ==
    /\ pc = "m_code"
    /\ LET blocks == save_code_block(text)
           spans == save_inline_code(blocks.text)
       IN  /\ code_blocks' = code_blocks \o blocks.frags
           /\ inline_codes' = inline_codes \o spans.frags
           /\ text' = spans.text
    /\ pc' = "m_headers"
    /\ UNCHANGED <<fn, arg, html_tables, ret, upstream, outside, lines, in_ul, in_ol,
                   result_lines, para_buffer>>

M_RewriteHeaders == Rewrite("m_headers", "m_emphasis", M_Headers(text))

M_RewriteEmphasis == Rewrite("m_emphasis", "m_links", M_Emphasis(text))

M_RewriteImagesLinks == Rewrite("m_links", "m_hr", M_ImagesLinks(text))

M_RewriteHr == Rewrite("m_hr", "m_list", M_Hr(text))

\* variant: the scan does not move on to the next line
SameLines(ls) == ls

\* for line in lines: the lines still to be visited after this iteration
rest_of(ls) == Tail(ls)

\* lines = text.split('\n'); in_ul = False; in_ol = False; result_lines = []
M_ListBegin ==
    /\ pc = "m_list"
    /\ lines' = Split(text)
    /\ in_ul' = FALSE
    /\ in_ol' = FALSE
    /\ result_lines' = <<>>
    /\ pc' = "m_list_loop"
    /\ UNCHANGED <<fn, arg, text, html_tables, code_blocks, inline_codes,
                   para_buffer, ret, upstream, outside>>

\* one iteration of "for line in lines" on an unordered item
M_ListBullet ==
    /\ pc = "m_list_loop" /\ lines # <<>>
    /\ LET stripped == Strip(Head(lines))
       IN  /\ IsBullet(stripped)
           /\ result_lines' = result_lines
                  \o (IF ~in_ul THEN <<"<ul>">> ELSE <<>>)
                  \o <<"<li>" \o From(stripped, 3) \o "</li>">>
           /\ in_ul' = TRUE
    /\ lines' = rest_of(lines)
    /\ UNCHANGED <<fn, arg, pc, text, html_tables, code_blocks, inline_codes,
                   in_ol, para_buffer, ret, upstream, outside>>

\* one iteration on an ordered item
M_ListNumbered ==
    /\ pc = "m_list_loop" /\ lines # <<>>
    /\ LET stripped == Strip(Head(lines))
       IN  /\ ~IsBullet(stripped) /\ IsNumbered(stripped)
           /\ result_lines' = result_lines
                  \o (IF ~in_ol THEN <<"<ol>">> ELSE <<>>)
                  \o <<"<li>" \o From(stripped, NumberPrefix(stripped) + 1) \o "</li>">>
           /\ in_ol' = TRUE
    /\ lines' = rest_of(lines)
    /\ UNCHANGED <<fn, arg, pc, text, html_tables, code_blocks, inline_codes,
                   in_ul, para_buffer, ret, upstream, outside>>

\* one iteration on any other line: close what is open, pass the line on
M_ListOther ==
    /\ pc = "m_list_loop" /\ lines # <<>>
    /\ LET stripped == Strip(Head(lines))
       IN  ~IsBullet(stripped) /\ ~IsNumbered(stripped)
    /\ result_lines' = result_lines \o close_lists(in_ul, in_ol) \o <<Head(lines)>>
    /\ in_ul' = FALSE
    /\ in_ol' = FALSE
    /\ lines' = rest_of(lines)
    /\ UNCHANGED <<fn, arg, pc, text, html_tables, code_blocks, inline_codes,
                   para_buffer, ret, upstream, outside>>

\* after the loop: close what is still open; text = '\n'.join(result_lines).
\* The flags are not reset by the source.
M_ListEnd ==
    /\ pc = "m_list_loop" /\ lines = <<>>
    /\ LET closed == result_lines \o close_lists(in_ul, in_ol)
       IN  /\ result_lines' = closed
           /\ text' = Join(closed, NL)
    /\ pc' = "m_blockquotes"
    /\ UNCHANGED <<fn, arg, html_tables, code_blocks, inline_codes, lines,
                   in_ul, in_ol, para_buffer, ret, upstream, outside>>

M_RewriteBlockquotes == Rewrite("m_blockquotes", "m_para", M_Blockquotes(text))

\* lines = text.split('\n'); result_lines = []; para_buffer = []
M_ParaBegin ==
    /\ pc = "m_para"
    /\ lines' = Split(text)
    /\ result_lines' = <<>>
    /\ para_buffer' = <<>>
    /\ pc' = "m_para_loop"
    /\ UNCHANGED <<fn, arg, text, html_tables, code_blocks, inline_codes,
                   in_ul, in_ol, ret, upstream, outside>>

\* if not stripped: flush_para()
M_ParaBlank ==
    /\ pc = "m_para_loop" /\ lines # <<>>
    /\ Strip(Head(lines)) = ""
    /\ result_lines' = result_lines \o flush_para(para_buffer)
    /\ para_buffer' = <<>>
    /\ lines' = rest_of(lines)
    /\ UNCHANGED <<fn, arg, pc, text, html_tables, code_blocks, inline_codes,
                   in_ul, in_ol, ret, upstream, outside>>

\* a block-level tag line: flush_para(); result_lines.append(line)
M_ParaTag ==
    /\ pc = "m_para_loop" /\ lines # <<>>
    /\ Strip(Head(lines)) # ""
    /\ IsBlockTagLine(Strip(Head(lines)))
    /\ result_lines' = result_lines \o flush_para(para_buffer) \o <<Head(lines)>>
    /\ para_buffer' = <<>>
    /\ lines' = rest_of(lines)
    /\ UNCHANGED <<fn, arg, pc, text, html_tables, code_blocks, inline_codes,
                   in_ul, in_ol, ret, upstream, outside>>

\* any other line: para_buffer.append(stripped)
M_ParaText ==
    /\ pc = "m_para_loop" /\ lines # <<>>
    /\ Strip(Head(lines)) # ""
    /\ ~IsBlockTagLine(Strip(Head(lines)))
    /\ para_buffer' = Append(para_buffer, Strip(Head(lines)))
    /\ lines' = rest_of(lines)
    /\ UNCHANGED <<fn, arg, pc, text, html_tables, code_blocks, inline_codes,
                   in_ul, in_ol, result_lines, ret, upstream, outside>>

\* after the loop: flush_para(); text = '\n'.join(result_lines)
M_ParaEnd ==
    /\ pc = "m_para_loop" /\ lines = <<>>
    /\ LET flushed == result_lines \o flush_para(para_buffer)
       IN  /\ result_lines' = flushed
           /\ text' = Join(flushed, NL)
    /\ para_buffer' = <<>>
    /\ pc' = "m_restore_code"
    /\ UNCHANGED <<fn, arg, html_tables, code_blocks, inline_codes, lines,
                   in_ul, in_ol, ret, upstream, outside>>

M_RestoreCodeFragments ==
    Rewrite("m_restore_code", "m_restore_tables", M_RestoreCode(text, code_blocks, inline_codes))

\* restore the tables, return text
M_Restore ==
    /\ pc = "m_restore_tables"
    /\ LET final == M_RestoreTables(text, html_tables)
       IN  /\ text' = final
           /\ ret' = final
    /\ pc' = "done"
    /\ UNCHANGED <<fn, arg, html_tables, upstream, outside>>
    /\ UnchangedM

MarkdownToHtml ==
    \/ M_Enter
    \/ M_ExtractTables
    \/ M_ExtractCode
    \/ M_RewriteHeaders
    \/ M_RewriteEmphasis
    \/ M_RewriteImagesLinks
    \/ M_RewriteHr
    \/ M_ListBegin
    \/ M_ListBullet
    \/ M_ListNumbered
    \/ M_ListOther
    \/ M_ListEnd
    \/ M_RewriteBlockquotes
    \/ M_ParaBegin
    \/ M_ParaBlank
    \/ M_ParaTag
    \/ M_ParaText
    \/ M_ParaEnd
    \/ M_RestoreCodeFragments
    \/ M_Restore

----------------------------------------------------------------------------
(* The two functions as a whole: what a call returns for an argument.      *)

\* html_to_markdown(html_content)
html_to_markdown(html_content) ==
    IF IsEmptyInput(html_content) THEN ""
    ELSE Then(save_html_table(html_content, FALSE), LAMBDA saved :
           LET rewritten ==
                   Then(Then(Then(Then(Then(Then(Then(Then(Then(Then(Then(Then(Then(Then(
                       saved.text,
                       H_Unescape), H_StyleScript), H_Headers), H_BoldItalic), H_Links),
                       H_Images), H_Lists), H_Blockquotes), H_Code), H_Hr), H_Paragraphs),
                       H_DivSpan), H_StripTags), H_CleanWhitespace)
               restore(v) == H_RestoreTables(v, saved.frags)
           IN  Then(Then(rewritten, restore), H_FinalCleanup))

\* the list pass over the lines ls, from the flags ul and ol and the output so far
RECURSIVE list_lines(_, _, _, _)
list_lines(todo, ul, ol, done) ==
    Then(todo, LAMBDA ls :
      Then(done, LAMBDA result :
        IF ls = <<>> THEN result \o close_lists(ul, ol)
        ELSE LET line == Head(ls)
                 stripped == Strip(line)
             IN  IF IsBullet(stripped)
                 THEN list_lines(Tail(ls), TRUE, ol,
                          result \o (IF ~ul THEN <<"<ul>">> ELSE <<>>)
                                 \o <<"<li>" \o From(stripped, 3) \o "</li>">>)
                 ELSE IF IsNumbered(stripped)
                 THEN list_lines(Tail(ls), ul, TRUE,
                          result \o (IF ~ol THEN <<"<ol>">> ELSE <<>>)
                                 \o <<"<li>" \o From(stripped, NumberPrefix(stripped) + 1)
                                             \o "</li>">>)
                 ELSE list_lines(Tail(ls), FALSE, FALSE,
                          result \o close_lists(ul, ol) \o <<line>>)))

\* the paragraph pass over the lines ls, from the buffer and the output so far
RECURSIVE para_lines(_, _, _)
para_lines(todo, held, done) ==
    Then(todo, LAMBDA ls :
      Then(held, LAMBDA buffer :
        Then(done, LAMBDA result :
          IF ls = <<>> THEN result \o flush_para(buffer)
          ELSE LET line == Head(ls)
                   stripped == Strip(line)
               IN  IF stripped = ""
                   THEN para_lines(Tail(ls), <<>>, result \o flush_para(buffer))
                   ELSE IF IsBlockTagLine(stripped)
                   THEN para_lines(Tail(ls), <<>>, result \o flush_para(buffer) \o <<line>>)
                   ELSE para_lines(Tail(ls), Append(buffer, stripped), result))))

\* markdown_to_html(markdown_content)
markdown_to_html(markdown_content) ==
    IF IsEmptyInput(markdown_content) THEN ""
    ELSE Then(save_html_table(markdown_content, TRUE), LAMBDA saved :
         Then(save_code_block(saved.text), LAMBDA blocks :
         Then(save_inline_code(blocks.text), LAMBDA spans :
           LET lists(v) == Join(list_lines(Split(v), FALSE, FALSE, <<>>), NL)
               paragraphs(v) == Join(para_lines(Split(v), <<>>, <<>>), NL)
               code(v) == M_RestoreCode(v, blocks.frags, spans.frags)
               tables(v) == M_RestoreTables(v, saved.frags)
           IN  Then(Then(Then(Then(Then(Then(Then(Then(Then(
                   spans.text,
                   M_Headers), M_Emphasis), M_ImagesLinks), M_Hr), lists), M_Blockquotes),
                   paragraphs), code), tables))))

\* what the function f returns for the argument a
Returns(f, a) == IF f = H2M THEN html_to_markdown(a) ELSE markdown_to_html(a)

----------------------------------------------------------------------------
(* The inputs.  An input is the concatenation of at most a bounded number  *)
(* of pieces of one family; the families hold what the converter is fed:   *)
(* tables in surrounding HTML, image tags, code spans and fences, list     *)
(* lines, emphasis.                                                        *)

MaxPieces == 3

MaxLines == 3

MaxMarkers == 4

MaxHops == 1

MaxBullets == 2

\* the header rules cover levels 1 to 6
MaxLevel == 6

\* all concatenations of 1..n pieces, with sep between two pieces
RECURSIVE Concats(_, _, _)
Concats(pieces, sep, n) ==
    IF n = 0 THEN {}
    ELSE LET shorter == Concats(pieces, sep, n - 1)
         IN  pieces \cup shorter \cup {a \o sep \o b : a \in pieces, b \in shorter}

TableA == "<table><th scope=\"col\">H</th></table>"
TableB == "<TABLE>\nA  B\n</TABLE>"
TableC == "<table>\n\n\nC</table>"

Tables == {TableA, TableB, TableC}

\* tables in surrounding HTML
Ragged == "c  d\n\n\n\ne"

HtmlTablePieces == Tables \cup {"a", " ", NL, "<p>b</p>", Ragged}

ImgBoth == "<img src=\"s\" alt=\"t\">"
ImgAltFirst == "<img alt=\"t\" src=\"s\">"
ImgSrcOnly == "<img src=\"s\"/>"

\* image tags and inline elements around them
HtmlImagePieces == {ImgBoth, ImgAltFirst, ImgSrcOnly, "x", "</i>"}

\* markup that is not balanced: unclosed and unopened tags, a cut tag
HtmlBrokenPieces == {"<b>x", "<table>", "<p", "</li>"}

HtmlInputs ==
    Concats(HtmlTablePieces, "", MaxPieces) \cup Concats(HtmlImagePieces, "", MaxPieces)
        \cup Concats(HtmlBrokenPieces, "", MaxPieces)

\* code spans and fences around Markdown markup and a raw table
CodePieces == {BT, Fence, NL, "*x*", "a_[b]", "<table>*A*</table>"}

\* lines of a document with list items
ListLines == {"- a", "* b", "1. c", "x", ""}

\* emphasis markers around plain words
EmphasisPieces == {"*", "**", "***", "x", "y z"}

\* a heading, a prose line with bold and italic, and bullet lines
Titles == {"Title", "T x"}

Prose == "Some **bold** and *italic* text."

BulletMarks == {"- ", "* "}

BulletItems == {"item one", "item two"}

BulletLists ==
    UNION {[1..k -> BulletMarks \X BulletItems] : k \in 1..MaxBullets}

Document(n, title, bullets, tail) ==
    Hashes(n) \o " " \o title \o NL \o NL \o Prose \o NL \o NL
        \o Join([i \in 1..Len(bullets) |-> bullets[i][1] \o bullets[i][2]], NL) \o tail

Documents ==
    {Document(n, title, bullets, tail) :
        n \in 1..MaxLevel, title \in Titles, bullets \in BulletLists, tail \in {"", NL}}

MarkdownInputs ==
    Concats(CodePieces, "", MaxPieces) \cup Concats(ListLines, NL, MaxLines)
        \cup Concats(EmphasisPieces, "", MaxMarkers) \cup Documents

Init ==
    /\ pc = "call"
    /\ upstream = <<>>
    /\ parked = <<>>
    /\ NoFiles
    /\ \/ fn = H2M /\ arg \in HtmlInputs \cup {""}
       \/ fn = M2H /\ arg \in MarkdownInputs \cup {""}
    /\ Fresh

\* the caller passes the returned string on as the argument of a next call
PassOn(next) ==
    /\ pc = "done"
    /\ Len(upstream) < MaxHops
    /\ upstream' = Append(upstream, [fn |-> fn, arg |-> arg, ret |-> ret])
    /\ fn' = next
    /\ arg' = ret
    /\ pc' = "call"
    /\ text' = ""
    /\ html_tables' = <<>>
    /\ code_blocks' = <<>>
    /\ inline_codes' = <<>>
    /\ lines' = <<>>
    /\ in_ul' = FALSE
    /\ in_ol' = FALSE
    /\ result_lines' = <<>>
    /\ para_buffer' = <<>>
    /\ ret' = ""
    /\ UNCHANGED outside

\* pull, then push: the Markdown made from a page's HTML is converted back
RoundTrip == fn = H2M /\ PassOn(M2H)

\* html_to_markdown applied to its own output
Reapply == fn = H2M /\ PassOn(H2M)

Next ==
    \/ HtmlToMarkdown
    \/ MarkdownToHtml
    \/ RoundTrip
    \/ Reapply

Spec == Init /\ [][Next]_vars

MaxBroken == 2

\* Markdown lines with markers that have no partner, among list lines
MarkdownBrokenLines == {"*x", BT \o "x", Fence, "- a", "1. c", ""}

\* calls on markup that is not balanced
BrokenInit ==
    /\ pc = "call"
    /\ upstream = <<>>
    /\ parked = <<>>
    /\ NoFiles
    /\ \/ fn = H2M /\ arg \in Concats(HtmlBrokenPieces, "", MaxBroken)
       \/ fn = M2H /\ arg \in Concats(MarkdownBrokenLines, NL, MaxBroken)
    /\ Fresh

\* a call that has been entered runs on: its statements are straight-line code
\* and loops over a finite list.  The caller need not call again.
FairSpec ==
    BrokenInit /\ [][Next]_vars /\ WF_vars(HtmlToMarkdown \/ MarkdownToHtml)

----------------------------------------------------------------------------
(* Calls in progress at the same time.  Every name a call assigns is a     *)
(* local of that call: text, html_tables and the closure save_html_table   *)
(* over it, code_blocks, inline_codes, lines, in_ul, in_ol, result_lines   *)
(* and para_buffer are created by the call's own statements.  A thread     *)
(* switch parks the frame of the running call and resumes another one.     *)

MaxCalls == 2

\* the frame of the running call
Running ==
    [fn |-> fn, arg |-> arg, pc |-> pc, text |-> text, html_tables |-> html_tables,
     code_blocks |-> code_blocks, inline_codes |-> inline_codes, lines |-> lines,
     in_ul |-> in_ul, in_ol |-> in_ol, result_lines |-> result_lines,
     para_buffer |-> para_buffer, ret |-> ret]

\* the frame of a call of f with the argument a before its first statement
Called(f, a) ==
    [fn |-> f, arg |-> a, pc |-> "call", text |-> "", html_tables |-> <<>>,
     code_blocks |-> <<>>, inline_codes |-> <<>>, lines |-> <<>>,
     in_ul |-> FALSE, in_ol |-> FALSE, result_lines |-> <<>>,
     para_buffer |-> <<>>, ret |-> ""]

\* variant: html_tables is one list of the module, shared by all the calls
ResumeSharingTables(fr) ==
    /\ fn' = fr.fn
    /\ arg' = fr.arg
    /\ pc' = fr.pc
    /\ text' = fr.text
    /\ UNCHANGED html_tables
    /\ code_blocks' = fr.code_blocks
    /\ inline_codes' = fr.inline_codes
    /\ lines' = fr.lines
    /\ in_ul' = fr.in_ul
    /\ in_ol' = fr.in_ol
    /\ result_lines' = fr.result_lines
    /\ para_buffer' = fr.para_buffer
    /\ ret' = fr.ret

\* the names of the running code denote the locals of the frame fr
Resume(fr) ==
    /\ fn' = fr.fn
    /\ arg' = fr.arg
    /\ pc' = fr.pc
    /\ text' = fr.text
    /\ html_tables' = fr.html_tables
    /\ code_blocks' = fr.code_blocks
    /\ inline_codes' = fr.inline_codes
    /\ lines' = fr.lines
    /\ in_ul' = fr.in_ul
    /\ in_ol' = fr.in_ol
    /\ result_lines' = fr.result_lines
    /\ para_buffer' = fr.para_buffer
    /\ ret' = fr.ret

ConcurrentHtml == {TableA \o "<p>b</p>"}

ConcurrentMarkdown == {"- a" \o NL \o "1. c" \o NL \o NL \o BT \o "x" \o BT \o TableB}

\* another thread calls one of the two functions while calls are in progress
Invoke ==
    /\ Len(parked) + 1 < MaxCalls
    /\ \E f \in {H2M, M2H} :
         \E a \in (IF f = H2M THEN ConcurrentHtml ELSE ConcurrentMarkdown) :
            Resume(Called(f, a))
    /\ parked' = Append(parked, Running)
    /\ UNCHANGED <<upstream, cwd, files, requests, paging>>

\* the interpreter switches to the thread of a call that has not returned
Switch ==
    \E i \in 1..Len(parked) :
        /\ parked[i].pc # "done"
        /\ Resume(parked[i])
        /\ parked' = [parked EXCEPT ![i] = Running]
        /\ UNCHANGED <<upstream, cwd, files, requests, paging>>

ConcInit ==
    /\ upstream = <<>>
    /\ parked = <<>>
    /\ NoFiles
    /\ \E f \in {H2M, M2H} :
         \E a \in (IF f = H2M THEN ConcurrentHtml ELSE ConcurrentMarkdown) :
            fn = f /\ arg = a
    /\ pc = "call"
    /\ Fresh

ConcNext ==
    \/ HtmlToMarkdown
    \/ MarkdownToHtml
    \/ Invoke
    \/ Switch

ConcSpec == ConcInit /\ [][ConcNext]_vars

----------------------------------------------------------------------------
(* canvas_cli/config.py.  A path is the sequence of its components (<<>>   *)
(* is the root); files maps the path of every YAML file on disk to the     *)
(* mapping yaml.safe_load returns for it.  A mapping is a function from    *)
(* its keys, a key whose value is null being left out; the items of        *)
(* course_folders are a sequence, in the order of the file.                *)

UpperCase == DOMAIN UpperToLower

LowerCase == {UpperToLower[c] : c \in UpperCase}

AsciiLetters == UpperCase \cup LowerCase

LowerToUpper == [c \in LowerCase |-> CHOOSE u \in UpperCase : UpperToLower[u] = c]

\* str.upper() on the characters lo..hi of s, by halves
RECURSIVE UpperRange(_, _, _)
UpperRange(s, low, high) ==
    Then(low, LAMBDA lo :
      Then(high, LAMBDA hi :
        IF lo > hi THEN ""
        ELSE IF lo = hi
        THEN LET c == Ch(s, lo)
             IN  IF c \in LowerCase THEN LowerToUpper[c] ELSE c
        ELSE LET mid == (lo + hi) \div 2
             IN  UpperRange(s, lo, mid) \o UpperRange(s, mid + 1, hi)))

Upper(s) == UpperRange(s, 1, Len(s))

\* the last position of the run of characters of class that starts at from
\* (from - 1 if the run is empty)
ClassRunEnd(s, from, class) ==
    LET others == {j \in from..Len(s) : Ch(s, j) \notin class}
    IN  IF others = {} THEN Max({Len(s), from - 1}) ELSE Min(others) - 1

\* re.match(r'(\d{4})([A-Za-z]{2})-([A-Za-z]+)-(\d+)', course_name): both
\* runs are greedy, and a shorter run could not be followed by the hyphen
CourseNameMatch(course_name) ==
    LET d == ClassRunEnd(course_name, 8, AsciiLetters)
        n == ClassRunEnd(course_name, d + 2, Digits)
    IN  IF /\ Len(course_name) >= 10
           /\ \A i \in 1..4 : Ch(course_name, i) \in Digits
           /\ \A i \in 5..6 : Ch(course_name, i) \in AsciiLetters
           /\ Ch(course_name, 7) = "-"
           /\ d >= 8
           /\ d + 2 <= Len(course_name)
           /\ Ch(course_name, d + 1) = "-"
           /\ n >= d + 2
        THEN [ok |-> TRUE,
              year |-> SubSeq(course_name, 1, 4),
              sem |-> SubSeq(course_name, 5, 6),
              dept |-> SubSeq(course_name, 8, d),
              num |-> SubSeq(course_name, d + 2, n)]
        ELSE NoMatch

\* variant: the first two digits of the year
YearHead(year) == SubSeq(year, 1, 2)

\* year[2:]
YearTail(year) == SubSeq(year, 3, 4)

\* parse_course_info(course_name)
parse_course_info(course_name) ==
    LET match == CourseNameMatch(course_name)
    IN  IF match.ok
        THEN [semester |-> Upper(match.sem) \o YearTail(match.year),
              course_code |-> Upper(match.dept) \o "-" \o match.num]
        ELSE [semester |-> "", course_code |-> ""]

\* config.get(key) is truthy: the key is there and its value is not ""
IsSet(config, key) == key \in DOMAIN config /\ config[key] # ""

\* variant: the legacy key is looked up first
LegacyFirst(config) ==
    IF IsSet(config, "courses_dir") THEN config["courses_dir"]
    ELSE IF IsSet(config, "default_folder") THEN config["default_folder"]
    ELSE "courses"

\* config.get("default_folder") or config.get("courses_dir") or "courses"
get_default_folder(config) ==
    IF IsSet(config, "default_folder") THEN config["default_folder"]
    ELSE IF IsSet(config, "courses_dir") THEN config["courses_dir"]
    ELSE "courses"

\* str(Path) of a directory
PathOf(dir) == "/" \o Join(dir, "/")

\* base / p of pathlib: an absolute p stands for itself
PathJoin(base, p) == IF At(p, 1, "/") THEN p ELSE base \o "/" \o p

Parent(dir) == SubSeq(dir, 1, Len(dir) - 1)

\* current / ".canvas-config.yaml"
ConfigFile(dir) == Append(dir, ".canvas-config.yaml")

\* find_config_file(): walks up from the working directory; the loop ends at
\* the root without looking into it
RECURSIVE find_config_file(_, _)
find_config_file(current, disk) ==
    Then(current, LAMBDA dir :
      IF dir = <<>> THEN [found |-> FALSE]
      ELSE IF ConfigFile(dir) \in DOMAIN disk THEN [found |-> TRUE, dir |-> dir]
      ELSE find_config_file(Parent(dir), disk))

\* load_config(): the mapping of the file found, with _config_dir
load_config(current, disk) ==
    LET config_path == find_config_file(current, disk)
    IN  IF ~config_path.found THEN [found |-> FALSE]
        ELSE [found |-> TRUE,
              config |-> disk[ConfigFile(config_path.dir)],
              config_dir |-> PathOf(config_path.dir)]

\* variant: the items are taken in the order of the configuration
Unsorted(items) == items

\* sorted(course_folders.items(), key=lambda item: len(item[0]), reverse=True):
\* the sort is stable, items with prefixes of one length keep their order
RECURSIVE SortedByLength(_)
SortedByLength(items) ==
    Then(items, LAMBDA its :
      IF its = <<>> THEN <<>>
      ELSE LET longest == Max({Len(its[i].prefix) : i \in 1..Len(its)})
               first == Min({i \in 1..Len(its) : Len(its[i].prefix) = longest})
           IN  <<its[first]>> \o
               SortedByLength(SubSeq(its, 1, first - 1) \o SubSeq(its, first + 1, Len(its))))

AlphaNumeric == UpperCase \cup Digits

\* variant: the prefix is looked for anywhere in the text
PrefixAnywhere(prefix, search_text) == Contains(search_text, Upper(prefix))

\* re.search(rf"(^|[^A-Z0-9]){escaped}([^A-Z0-9]|$)", search_text): from some
\* position, nothing at the start of the text or one character outside A-Z0-9,
\* then the upper-cased prefix, then one character outside A-Z0-9 or the end
PrefixMatches(prefix, search_text) ==
    LET escaped == Upper(prefix)
        n == Len(search_text)
    IN  \E at \in 0..n :
          \E lead \in {0, 1} :
            /\ lead = 0 => at = 0
            /\ lead = 1 => at < n /\ Ch(search_text, at + 1) \notin AlphaNumeric
            /\ At(search_text, at + lead + 1, escaped)
            /\ LET after == at + lead + Len(escaped)
               IN  \/ after < n /\ Ch(search_text, after + 1) \notin AlphaNumeric
                   \/ after = n
                   \/ after = n - 1 /\ Ch(search_text, n) = NL

\* for prefix, folder in sorted(...): if re.search(...): target_folder = folder; break
RECURSIVE TargetFolder(_, _, _)
TargetFolder(items, search_text, default_folder) ==
    Then(items, LAMBDA its :
      IF its = <<>> THEN default_folder
      ELSE IF PrefixMatches(its[1].prefix, search_text) THEN its[1].folder
      ELSE TargetFolder(Tail(its), search_text, default_folder))

\* config.get("course_folders", {})
CourseFolders(config) ==
    IF "course_folders" \in DOMAIN config THEN config["course_folders"] ELSE <<>>

\* the path get_course_folder returns for a loaded configuration
CourseFolderPath(loaded, course_code, course_name) ==
    LET default_folder == get_default_folder(loaded.config)
        search_text == Upper(course_code \o " " \o course_name)
        target_folder == TargetFolder(SortedByLength(CourseFolders(loaded.config)),
                                      search_text, default_folder)
        course_info == parse_course_info(course_name)
        subfolder == IF course_info.semester # "" /\ course_info.course_code # ""
                     THEN course_info.semester \o "-" \o course_info.course_code
                          \o "-codex-course"
                     ELSE "codex-course"
    IN  PathJoin(PathJoin(loaded.config_dir, target_folder), subfolder)

\* a call of a function of config.py returns value, or raises
Finish(value) ==
    /\ pc' = "done"
    /\ ret' = value

Raise ==
    /\ pc' = "raised"
    /\ UNCHANGED ret

UnchangedConfig ==
    UNCHANGED <<fn, arg, text, html_tables, code_blocks, inline_codes, lines, in_ul,
                in_ol, result_lines, para_buffer, upstream, parked, cwd, files, requests, paging>>

ParseCourseInfo ==
    /\ pc = "call" /\ fn = "parse_course_info"
    /\ Finish(parse_course_info(arg))
    /\ UnchangedConfig

\* get_courses_dir()
GetCoursesDir ==
    /\ pc = "call" /\ fn = "get_courses_dir"
    /\ LET config == load_config(cwd, files)
       IN  IF ~config.found THEN Raise
           ELSE Finish(PathJoin(config.config_dir, get_default_folder(config.config)))
    /\ UnchangedConfig

\* get_course_folder(course_code, course_name)
GetCourseFolder ==
    /\ pc = "call" /\ fn = "get_course_folder"
    /\ LET config == load_config(cwd, files)
       IN  IF ~config.found THEN Raise
           ELSE Finish(CourseFolderPath(config, arg.course_code, arg.course_name))
    /\ UnchangedConfig

(* Inputs of config.py *)

NameHeads == {"2026SP", "1999fa", "2026S", "202SP", "2026S1", "x2026SP"}

NameDepts == {"-PHIL", "-Hist", "-CHIST", "-", "PHIL", "-P1"}

NameNumbers == {"-123", "-7", "-", "123", "-x1", " 123"}

NameTails == {"", "-001H-16W: AI and Ethics", "9", ": World HIST"}

CourseNames ==
    {h \o d \o n \o t : h \in NameHeads, d \in NameDepts, n \in NameNumbers, t \in NameTails}
        \cup {"", "My Sandbox Course"}

FolderValues == {"", "faculty-courses", "/srv/canvas"}

LegacyValues == {"", "legacy-courses"}

CourseFolderItems ==
    {<<>>,
     <<[prefix |-> "HIST", folder |-> "History"]>>,
     <<[prefix |-> "phil", folder |-> "CWI/Philosophy"],
       [prefix |-> "PHIL-123", folder |-> "Ethics"],
       [prefix |-> "HIST", folder |-> "History"]>>}

\* the mappings a config file may hold
Configs ==
    {named @@ mapped :
        named \in UNION {[keys -> FolderValues \cup LegacyValues] :
                            keys \in SUBSET {"default_folder", "courses_dir"}},
        mapped \in {<<>>} \cup {[course_folders |-> items] : items \in CourseFolderItems}}

OuterConfig == [default_folder |-> "outer"]

Project == <<"w", "c">>

\* a working directory and the config files above it
ConfigInit ==
    /\ \/ /\ fn \in {"get_courses_dir", "get_course_folder"}
          /\ cwd \in {Project, <<"w", "c", "s">>, <<"t">>}
          /\ \E dir \in {<<>>, <<"w">>, Project} :
               \E config \in Configs :
                  files \in {(ConfigFile(dir) :> config),
                             (ConfigFile(dir) :> config) @@ (ConfigFile(<<"w">>) :> OuterConfig)}
       \/ /\ fn = "parse_course_info"
          /\ cwd = Project
          /\ files = (ConfigFile(Project) :> OuterConfig)
    /\ requests = <<>>
    /\ NoPaging
    /\ upstream = <<>>
    /\ parked = <<>>
    /\ pc = "call"
    /\ Fresh
    /\ \/ fn = "parse_course_info" /\ arg \in CourseNames
       \/ fn = "get_courses_dir" /\ arg = <<>>
       \/ /\ fn = "get_course_folder"
          /\ arg \in [course_code : {"CHIST-101", "hist-101", "AI and Ethics"},
                      course_name : {"2026SP-CHIST-101-001: Cross-History Methods",
                                     "2026SP-HIST-101-001: World History",
                                     "2026sp-Phil-123-001H-16W: AI and Ethics",
                                     "Sandbox (HIST)"}]

ConfigNext ==
    \/ ParseCourseInfo
    \/ GetCoursesDir
    \/ GetCourseFolder

ConfigSpec == ConfigInit /\ [][ConfigNext]_vars

----------------------------------------------------------------------------
(* canvas_cli/cli.py: matches_name                                         *)

\* \w on a lower-cased ASCII string
IsWord(c) == c \in AsciiLetters \cup Digits \cup {"_"}

\* (?:^|(?<=\s)|(?<=[^\w.])) with p characters of target before the position
LeftEdge(target, p) ==
    \/ p = 0
    \/ IsSpace(Ch(target, p))
    \/ ~IsWord(Ch(target, p)) /\ Ch(target, p) # "."

\* (?:$|(?=\s)|(?=[^\w.])) with p characters of target before the position
RightEdge(target, p) ==
    \/ p = Len(target)
    \/ p = Len(target) - 1 /\ Ch(target, p + 1) = NL
    \/ IsSpace(Ch(target, p + 1))
    \/ ~IsWord(Ch(target, p + 1)) /\ Ch(target, p + 1) # "."

\* \b with p characters of target before the position
WordBoundary(target, p) ==
    (p >= 1 /\ IsWord(Ch(target, p))) # (p < Len(target) /\ IsWord(Ch(target, p + 1)))

\* the positions (characters before it) where the literal term occurs in target
Occurrences(term, target) ==
    {p \in 0..(Len(target) - Len(term)) : SubSeq(target, p + 1, p + Len(term)) = term}

\* re.search(pattern, target_lower)
FirstStrategy(term, target) ==
    \E p \in Occurrences(term, target) :
        LeftEdge(target, p) /\ RightEdge(target, p + Len(term))

\* re.search(pattern_simple, target_lower)
Fallback(term, target) ==
    \E p \in Occurrences(term, target) :
        WordBoundary(target, p) /\ WordBoundary(target, p + Len(term))

\* matches_name(search, target)
matches_name(search, target) ==
    LET search_lower == Strip(Lower(search))
        target_lower == Lower(target)
    IN  IF FirstStrategy(search_lower, target_lower) THEN TRUE
        ELSE IF Fallback(search_lower, target_lower) THEN TRUE
        ELSE FALSE

MatchesName ==
    /\ pc = "call" /\ fn = "matches_name"
    /\ Finish(matches_name(arg.search, arg.target))
    /\ UnchangedConfig

Searches == {"1.5", "Module 1", " module 1 ", "1", "5", ".5", "-a", "a", "(a)", "  ", "A_b", "1.5" \o NL}

Targets == {"1.5 Assignment", "11.5 Assignment", "Module 1 - Intro", "Module 10", "x-a",
            "x (a) y", "_a_", "a_b", "v1.5", "1.5.2", "Week 1: a", "", "Module 1" \o NL}

NameInit ==
    /\ fn = "matches_name"
    /\ arg \in [search : Searches, target : Targets]
    /\ pc = "call"
    /\ upstream = <<>>
    /\ parked = <<>>
    /\ NoFiles
    /\ Fresh

NameNext == MatchesName

NameSpec == NameInit /\ [][NameNext]_vars

----------------------------------------------------------------------------
(* canvas_cli/cli.py: push_rubric_file, with CanvasAPI.create_rubric and   *)
(* update_rubric of canvas_cli/api.py.  requests is the list of the calls  *)
(* sent to the server, each with what came back: the JSON object of the    *)
(* response, or the HTTPError that raise_for_status raises.                *)

MaxRequests == 3

CourseMeta == "_course.yaml"

\* find_course_meta(filepath): the grandparent directory, then the parent,
\* then every directory from the parent upwards
find_course_meta(filepath, disk) ==
    LET holds(dir) == Append(dir, CourseMeta) \in DOMAIN disk
        above == {k \in 0..(Len(filepath) - 1) : holds(SubSeq(filepath, 1, k))}
    IN  IF holds(Parent(Parent(filepath)))
        THEN [found |-> TRUE, meta |-> disk[Append(Parent(Parent(filepath)), CourseMeta)]]
        ELSE IF holds(Parent(filepath))
        THEN [found |-> TRUE, meta |-> disk[Append(Parent(filepath), CourseMeta)]]
        ELSE IF above # {}
        THEN [found |-> TRUE, meta |-> disk[Append(SubSeq(filepath, 1, Max(above)), CourseMeta)]]
        ELSE [found |-> FALSE]

\* result.get("rubric", {}).get("id") or result.get("id"), 0 when there is none
NewId(result) ==
    IF "rubric" \in DOMAIN result /\ "id" \in DOMAIN result["rubric"]
       /\ result["rubric"]["id"] # 0
    THEN result["rubric"]["id"]
    ELSE IF "id" \in DOMAIN result THEN result["id"]
    ELSE 0

\* variant: the id is not written to the rubric data
WithoutCanvasId(rubric_data, new_id) == rubric_data

\* rubric_data["canvas_id"] = new_id
WithCanvasId(rubric_data, new_id) ==
    [k \in DOMAIN rubric_data \cup {"canvas_id"} |->
        IF k = "canvas_id" THEN new_id ELSE rubric_data[k]]

\* what the server may answer to a create: the rubric under "rubric", a bare
\* rubric, or an object without an id
RubricIds == {41, 42}

CreateResults ==
    {("rubric" :> ("id" :> n)) : n \in RubricIds}
        \cup {("id" :> n) : n \in RubricIds}
        \cup {("rubric_association" :> 5)}

Sent(call, course_id, rubric_id, result, failed) ==
    Append(requests, [call |-> call, course_id |-> course_id, rubric_id |-> rubric_id,
                      result |-> result, failed |-> failed])

UnchangedRubric ==
    UNCHANGED <<fn, arg, text, html_tables, code_blocks, inline_codes, lines, in_ul,
                in_ol, result_lines, para_buffer, upstream, parked, cwd, paging>>

\* push_rubric_file(api, filepath, dry_run)
PushRubricFile ==
    /\ pc = "call" /\ fn = "push_rubric_file"
    /\ UnchangedRubric
    /\ IF arg.filepath \notin DOMAIN files
       THEN Finish(FALSE) /\ UNCHANGED <<files, requests>>
       ELSE LET rubric_data == files[arg.filepath]
                is_new == "canvas_id" \notin DOMAIN rubric_data
                course_meta == find_course_meta(arg.filepath, files)
            IN  IF ~course_meta.found
                THEN Finish(FALSE) /\ UNCHANGED <<files, requests>>
                ELSE IF arg.dry_run
                THEN Finish(TRUE) /\ UNCHANGED <<files, requests>>
                ELSE IF is_new
                THEN \/ \E result \in CreateResults :
                          /\ requests' = Sent("create_rubric", course_meta.meta["canvas_id"],
                                              0, result, FALSE)
                          /\ IF NewId(result) # 0
                             THEN files' = [files EXCEPT ![arg.filepath] =
                                                WithCanvasId(rubric_data, NewId(result))]
                             ELSE UNCHANGED files
                          /\ Finish(TRUE)
                     \/ /\ requests' = Sent("create_rubric", course_meta.meta["canvas_id"],
                                            0, <<>>, TRUE)
                        /\ Raise
                        /\ UNCHANGED files
                ELSE \/ /\ requests' = Sent("update_rubric", course_meta.meta["canvas_id"],
                                            rubric_data["canvas_id"], <<>>, FALSE)
                        /\ Finish(TRUE)
                        /\ UNCHANGED files
                     \/ /\ requests' = Sent("update_rubric", course_meta.meta["canvas_id"],
                                            rubric_data["canvas_id"], <<>>, TRUE)
                        /\ Raise
                        /\ UNCHANGED files

\* the user pushes the same file once more
PushAgain ==
    /\ fn = "push_rubric_file"
    /\ pc \in {"done", "raised"}
    /\ Len(requests) < MaxRequests
    /\ pc' = "call"
    /\ ret' = ""
    /\ \E dry_run \in BOOLEAN : arg' = [arg EXCEPT !.dry_run = dry_run]
    /\ UNCHANGED <<fn, text, html_tables, code_blocks, inline_codes, lines, in_ul, in_ol,
                   result_lines, para_buffer, upstream, parked, cwd, files, requests, paging>>

RubricFile == <<"course", "rubrics", "essay.yaml">>

RubricData == {[title |-> "Essay"], [title |-> "Essay", canvas_id |-> 7]}

RubricInit ==
    /\ fn = "push_rubric_file"
    /\ arg \in [filepath : {RubricFile}, dry_run : BOOLEAN]
    /\ pc = "call"
    /\ cwd = <<"course">>
    /\ \E rubric \in RubricData :
         files \in {(RubricFile :> rubric) @@ (<<"course", CourseMeta>> :> [canvas_id |-> 77]),
                    (RubricFile :> rubric) @@ (<<CourseMeta>> :> [canvas_id |-> 78]),
                    (RubricFile :> rubric),
                    (<<"course", CourseMeta>> :> [canvas_id |-> 77])}
    /\ requests = <<>>
    /\ NoPaging
    /\ upstream = <<>>
    /\ parked = <<>>
    /\ Fresh

RubricNext ==
    \/ PushRubricFile
    \/ PushAgain

RubricSpec == RubricInit /\ [][RubricNext]_vars

\* ---------------------------------------------------------------------------
\* Properties
\* ---------------------------------------------------------------------------

Returned(f) == pc = "done" /\ fn = f

\* C1: a finished html_to_markdown call returns every table element of its
\* input byte for byte, exactly as many times as the input holds it.
C1_TablesVerbatim ==
    Returned(H2M) => \A T \in Tables : Count(ret, T) = Count(arg, T)

\* C2: a finished markdown_to_html call returns every raw table element of its
\* Markdown input byte for byte, and a table of a page's HTML is therefore
\* still there after html_to_markdown followed by markdown_to_html.
C2_TablesSurviveMarkdownToHtml ==
    Returned(M2H) =>
        /\ \A T \in Tables \cup {"<table>*A*</table>"} :
              Contains(arg, T) => Contains(ret, T)
        /\ (upstream # <<>> /\ upstream[1].fn = H2M) =>
              \A T \in Tables : Contains(upstream[1].arg, T) => Contains(ret, T)

HasPlaceholder(s) ==
    \/ Contains(s, "__HTML_TABLE_")
    \/ Contains(s, "__CODE_BLOCK_")
    \/ Contains(s, "__INLINE_CODE_")

\* C3: when the input of a call holds no placeholder-shaped string, neither
\* does the string the call returns, raw or HTML-escaped: every fragment taken
\* out during the call is back before it returns.
C3_NoPlaceholderLeft ==
    (pc = "done" /\ ~HasPlaceholder(arg)) => ~HasPlaceholder(ret)

EscapeMarkup(s) == Replace(Replace(Replace(s, "&", "&amp;"), "<", "&lt;"), ">", "&gt;")

\* the body of an input that is one inline code span, "" when it is not one
SpanBody ==
    LET body == SubSeq(arg, 2, Len(arg) - 1)
    IN  IF Len(arg) >= 3 /\ Ch(arg, 1) = BT /\ Ch(arg, Len(arg)) = BT
           /\ ~Contains(body, BT) /\ ~Contains(body, NL)
        THEN body ELSE ""

\* the body of an input that is one fenced block, "" when it is not one
FenceBody ==
    LET body == SubSeq(arg, 5, Len(arg) - 4)
    IN  IF Len(arg) >= 9 /\ At(arg, 1, Fence \o NL) /\ At(arg, Len(arg) - 3, NL \o Fence)
           /\ ~Contains(body, BT)
        THEN body ELSE ""

\* C4: markup inside an inline code span or a fenced block is not rewritten:
\* the code element returned holds the body as written, with only <, > and &
\* escaped.
C4_CodeBodyProtected ==
    Returned(M2H) =>
        /\ SpanBody # "" => Contains(ret, "<code>" \o EscapeMarkup(SpanBody) \o "</code>")
        /\ FenceBody # "" =>
              Contains(ret, "<pre><code>" \o EscapeMarkup(FenceBody) \o "</code></pre>")

\* C5: in the list pass the flags in_ul and in_ol are never both true.
C5_ListFlagsExclusive == ~(in_ul /\ in_ol)

ListTags == {"<ul>", "</ul>", "<ol>", "</ol>"}

CountLines(ls, l) == Cardinality({i \in 1..Len(ls) : ls[i] = l})

\* list containers of kind open/close still open after the first n lines
OpenAfter(ls, n, open, close) ==
    CountLines(SubSeq(ls, 1, n), open) - CountLines(SubSeq(ls, 1, n), close)

IsListOutput(l) == l \in ListTags \/ At(l, 1, "<li>")

\* C6: every list container markdown_to_html opens it also closes: all open
\* containers are closed before the content of a following non-list line, none
\* is open after the last line, and the returned HTML holds as many </ul> as
\* <ul> and as many </ol> as <ol>.
C6_ListsClosed ==
    /\ (fn = M2H /\ pc = "m_list_loop") =>
          \A i \in 1..Len(result_lines) :
              ~IsListOutput(result_lines[i]) =>
                  /\ OpenAfter(result_lines, i - 1, "<ul>", "</ul>") = 0
                  /\ OpenAfter(result_lines, i - 1, "<ol>", "</ol>") = 0
    /\ (fn = M2H /\ pc = "m_blockquotes") =>
          /\ Count(text, "<ul>") = Count(text, "</ul>")
          /\ Count(text, "<ol>") = Count(text, "</ol>")
    /\ Returned(M2H) =>
          /\ Count(ret, "<ul>") = Count(ret, "</ul>")
          /\ Count(ret, "<ol>") = Count(ret, "</ol>")

\* both kinds of list were opened, a non-list line followed, and the call is over
C6_Witness ==
    /\ Returned(M2H)
    /\ Contains(ret, "</ul>")
    /\ Contains(ret, "</ol>")
    /\ Contains(ret, "<p>x</p>")

Letters == {"x", "y", "z", " "}

IsPlain(s) == \A i \in 1..Len(s) : Ch(s, i) \in Letters

\* the input read as before, marker, inner, marker, after: two runs of the same
\* one to three asterisks around plain text, with plain text around them
EmphasisForm ==
    LET i  == Find(arg, "*", 1)
        e  == IF i = 0 THEN 0 ELSE RunEnd(arg, "*", i)
        k  == IF i = 0 THEN 0 ELSE Find(arg, "*", e + 1)
        e2 == IF k = 0 THEN 0 ELSE RunEnd(arg, "*", k)
    IN  IF i > 0 /\ k > e + 1 /\ e2 - k = e - i /\ e - i < 3
           /\ IsPlain(SubSeq(arg, 1, i - 1)) /\ IsPlain(SubSeq(arg, e + 1, k - 1))
           /\ IsPlain(From(arg, e2 + 1))
        THEN [ok |-> TRUE, n |-> e - i + 1, before |-> SubSeq(arg, 1, i - 1),
              inner |-> SubSeq(arg, e + 1, k - 1), after |-> From(arg, e2 + 1)]
        ELSE NoMatch

EmphasisOpen(n) == CASE n = 3 -> "<strong><em>" [] n = 2 -> "<strong>" [] OTHER -> "<em>"

EmphasisClose(n) == CASE n = 3 -> "</em></strong>" [] n = 2 -> "</strong>" [] OTHER -> "</em>"

\* C7: ***x*** comes out as <strong><em>x</em></strong>, **x** as
\* <strong>x</strong> and *x* as <em>x</em>, for plain one-word or many-word x,
\* and no asterisk is left in the returned HTML.
C7_EmphasisPrecedence ==
    (Returned(M2H) /\ EmphasisForm.ok) =>
        LET m == EmphasisForm
        IN  /\ ret = "<p>" \o Strip(m.before \o EmphasisOpen(m.n) \o m.inner
                                     \o EmphasisClose(m.n) \o m.after) \o "</p>"
            /\ ~Contains(ret, "*")

\* a triple-asterisk span of several words inside a line has been converted
C7_Witness ==
    /\ Returned(M2H)
    /\ EmphasisForm.ok
    /\ EmphasisForm.n = 3
    /\ EmphasisForm.inner = "y z"
    /\ EmphasisForm.before = "x"

ImageMarkdown(s) ==
    Replace(Replace(Replace(s, ImgBoth, "![t](s)"), ImgAltFirst, "![t](s)"),
            ImgSrcOnly, "![](s)")

\* C8: html_to_markdown turns an image tag with src and alt, in either order,
\* into ![alt](src), and one with src only into ![](src).
C8_ImagesKeepAlt ==
    (Returned(H2M) /\ upstream = <<>> /\ arg \in Concats(HtmlImagePieces \ {"</i>"}, "", MaxPieces)) =>
        ret = ImageMarkdown(arg)

\* the string with every table element replaced by a mark
RECURSIVE MaskTablesFrom(_, _, _)
MaskTablesFrom(s, folded, origin) ==
    Then(folded, LAMBDA ls :
      Then(origin, LAMBDA from :
        LET m == ElemSearch(s, ls, "table", from)
        IN  IF ~m.ok THEN From(s, from)
            ELSE SubSeq(s, from, m.start - 1) \o "#" \o MaskTablesFrom(s, ls, m.end + 1)))

MaskTables(s) == MaskTablesFrom(s, Lower(s), 1)

\* C9: outside restored tables, what html_to_markdown returns has no run of
\* three or more newlines and no run of two or more spaces, and it neither
\* starts nor ends with whitespace; the same holds when html_to_markdown is
\* applied again to what it returned.
C9_WhitespaceNormalized ==
    Returned(H2M) =>
        /\ ~Contains(MaskTables(ret), NL \o NL \o NL)
        /\ ~Contains(MaskTables(ret), "  ")
        /\ ret = Strip(ret)

\* html_to_markdown has been applied again to the output it gave for an input
\* with runs of spaces and newlines in the text next to a table
C9_Witness ==
    /\ Returned(H2M)
    /\ upstream # <<>>
    /\ upstream[1].fn = H2M
    /\ Contains(upstream[1].arg, " " \o Ragged \o TableB)
    /\ Contains(ret, "c d\n\ne\n\n" \o TableB)

TextPieces == {[html |-> "a", text |-> "a"], [html |-> "<p>b</p>", text |-> "b"]}

\* C10: for an input made of text, a table and text, html_to_markdown returns
\* the first text, the table as written and the second text in that order, the
\* table set off from each neighbour by exactly one blank line.
C10_TableBetweenText ==
    (Returned(H2M) /\ upstream = <<>>) =>
        \A T \in Tables : \A b, a \in TextPieces :
            arg = b.html \o T \o a.html =>
                ret = b.text \o NL \o NL \o T \o NL \o NL \o a.text

DocumentHtml(n, title, bullets) ==
    "<h" \o Str(n) \o ">" \o title \o "</h" \o Str(n) \o ">"
        \o "<p>Some <strong>bold</strong> and <em>italic</em> text.</p>"
        \o "<ul>"
        \o Join([i \in 1..Len(bullets) |-> "<li>" \o bullets[i][2] \o "</li>"], "")
        \o "</ul>"

\* C11: for a document made of a level-n heading, a blank line, the prose line
\* with bold and italic, a blank line and k bullet lines, markdown_to_html
\* returns, line breaks aside, exactly one <hn> element with the heading text,
\* one <p> element with the prose and <strong>/<em> substituted, and one <ul>
\* with the k <li> elements in bullet order.
C11_DocumentRendered ==
    (Returned(M2H) /\ At(arg, 1, "#")) =>
        \A n \in 1..MaxLevel : \A title \in Titles : \A bullets \in BulletLists :
            \A tail \in {"", NL} :
                arg = Document(n, title, bullets, tail) =>
                    Replace(ret, NL, "") = DocumentHtml(n, title, bullets)

\* the scenario of a level-1 heading, the prose and two dash bullets is over
C11_Witness ==
    /\ Returned(M2H)
    /\ arg = "# Title\n\nSome **bold** and *italic* text.\n\n- item one\n- item two\n"
    /\ ret = "<h1>Title</h1>\n<p>Some <strong>bold</strong> and <em>italic</em> text.</p>\n<ul>\n<li>item one</li>\n<li>item two</li>\n</ul>"

\* C12: html_to_markdown("") and markdown_to_html("") return "" at once: no
\* stage runs, the buffer stays unset and no fragment is created.
C12_EmptyInput ==
    arg = "" =>
        /\ pc \in {"call", "done"}
        /\ Fresh

\* both functions have been called with the empty string and have returned
C12_Witness ==
    /\ Returned(M2H)
    /\ arg = ""
    /\ upstream # <<>>
    /\ upstream[1] = [fn |-> H2M, arg |-> "", ret |-> ""]

HtmlStages ==
    <<"call", "h_extract", "h_unescape", "h_stylescript", "h_headers", "h_bolditalic",
      "h_links", "h_images", "h_lists", "h_blockquotes", "h_code", "h_hr",
      "h_paragraphs", "h_divspan", "h_striptags", "h_whitespace", "h_restore", "done">>

MarkdownStages ==
    <<"call", "m_extract", "m_code", "m_headers", "m_emphasis", "m_links", "m_hr",
      "m_list", "m_list_loop", "m_blockquotes", "m_para", "m_para_loop",
      "m_restore_code", "m_restore_tables", "done">>

StagesOf(f) == IF f = H2M THEN HtmlStages ELSE MarkdownStages

StageIndex(f, p) == CHOOSE i \in 1..Len(StagesOf(f)) : StagesOf(f)[i] = p

\* a step of a call goes to the next stage, or once more round a line scan
\* with fewer lines left, or from the entry to the return on empty input; the
\* only step out of the return is the start of a next call
StagesInOrder ==
    \/ pc = "done" /\ pc' = "call"
    \/ pc = "call" /\ pc' = "done" /\ arg = "" /\ fn' = fn
    \/ /\ pc # "done" /\ fn' = fn
       /\ pc' \in {StagesOf(fn)[i] : i \in 1..Len(StagesOf(fn))}
       /\ StageIndex(fn, pc') = StageIndex(fn, pc) + 1
    \/ /\ pc \in {"m_list_loop", "m_para_loop"} /\ pc' = pc
       /\ Len(lines') < Len(lines)

IsBulletLine(line) == At(Strip(line), 1, "* ")

\* markers without a partner stay in the returned text as they were written
UnmatchedStayLiteral ==
    Returned(M2H) =>
        /\ (Count(arg, "*") = 1 /\ \A i \in 1..Len(Split(arg)) : ~IsBulletLine(Split(arg)[i]))
              => Count(ret, "*") = 1
        /\ Count(arg, BT) = 1 => Count(ret, BT) = 1
        /\ (Count(arg, BT) = 3 /\ Contains(arg, Fence)) => Contains(ret, Fence)

C14_CallsIsolated ==
    /\ [](\A fr \in {Running} \cup {parked[i] : i \in 1..Len(parked)} :
             fr.pc = "done" => fr.ret = Returns(fr.fn, fr.arg))
    /\ [][(HtmlToMarkdown \/ MarkdownToHtml) => parked' = parked]_vars

\* a call has returned its own table while another call, stopped in the middle
\* of its stages, holds a different table
C14_Witness ==
    /\ pc = "done"
    /\ html_tables # <<>>
    /\ Contains(ret, html_tables[1])
    /\ Len(parked) = 1
    /\ parked[1].pc \notin {"call", "done"}
    /\ parked[1].html_tables # <<>>
    /\ parked[1].html_tables # html_tables

\* the placeholder of the table with index i in a call of f
TablePlaceholder(f, i) == IF f = H2M THEN Placeholder("HTML_TABLE", i) ELSE TagPlaceholder(i)

\* the buffer s holds one placeholder P(i) for every index of the table frags,
\* in the order of the indices, and no other placeholder of that prefix
Numbered(s, frags, prefix, P(_)) ==
    /\ Count(s, prefix) = Len(frags)
    /\ \A i \in 0..(Len(frags) - 1) : Count(s, P(i)) = 1
    /\ \A i \in 0..(Len(frags) - 2) : Find(s, P(i), 1) < Find(s, P(i + 1), 1)

\* an extraction step keeps the entries a table already has; every other step
\* leaves the three tables as they are
TablesAppendOnly ==
    IF pc \in {"h_extract", "m_extract", "m_code"}
    THEN /\ SubSeq(html_tables', 1, Len(html_tables)) = html_tables
         /\ SubSeq(code_blocks', 1, Len(code_blocks)) = code_blocks
         /\ SubSeq(inline_codes', 1, Len(inline_codes)) = inline_codes
    ELSE pc' # "call" => UNCHANGED <<html_tables, code_blocks, inline_codes>>

\* right after the extraction of a kind the buffer holds the placeholders
\* 0 .. len-1 of that kind from left to right
PlaceholdersNumbered ==
    /\ pc \in {"h_unescape", "m_code"} =>
          Numbered(text, html_tables, "__HTML_TABLE_", LAMBDA i : TablePlaceholder(fn, i))
    /\ pc = "m_headers" =>
          /\ Numbered(text, code_blocks, "__CODE_BLOCK_",
                      LAMBDA i : Placeholder("CODE_BLOCK", i))
          /\ Numbered(text, inline_codes, "__INLINE_CODE_",
                      LAMBDA i : Placeholder("INLINE_CODE", i))

\* when the restoration of a kind starts, each of its placeholders is in the
\* buffer once, and when it is over none is left
PlaceholdersRestoredOnce ==
    /\ pc \in {"h_restore", "m_restore_tables"} =>
          \A i \in 0..(Len(html_tables) - 1) : Count(text, TablePlaceholder(fn, i)) = 1
    /\ pc = "m_restore_code" =>
          /\ \A i \in 0..(Len(code_blocks) - 1) :
                Count(text, Placeholder("CODE_BLOCK", i)) = 1
          /\ \A i \in 0..(Len(inline_codes) - 1) :
                Count(text, Placeholder("INLINE_CODE", i)) = 1
    /\ (pc = "done" /\ ~HasPlaceholder(arg)) => ~HasPlaceholder(ret)

\* C15: in each call and for each kind of fragment, extraction only appends
\* to the fragment table, the k-th match from the left is stored at index k-1
\* and replaced by the placeholder of index k-1, so that the buffer then holds
\* as many placeholders as the table has entries; restoration leaves the
\* table alone and replaces each placeholder exactly once.
C15_FragmentTables ==
    /\ [][TablesAppendOnly]_vars
    /\ []PlaceholdersNumbered
    /\ []PlaceholdersRestoredOnce

\* s begins with four digits, two letters, a hyphen, d letters, a hyphen and
\* n digits, and the n digits are all the digits there
StandardName(s, d, n) ==
    /\ Len(s) >= 8 + d + n
    /\ \A i \in 1..4 : Ch(s, i) \in Digits
    /\ \A i \in 5..6 : Ch(s, i) \in AsciiLetters
    /\ Ch(s, 7) = "-"
    /\ \A i \in 8..(7 + d) : Ch(s, i) \in AsciiLetters
    /\ Ch(s, 8 + d) = "-"
    /\ \A i \in (9 + d)..(8 + d + n) : Ch(s, i) \in Digits
    /\ Len(s) > 8 + d + n => Ch(s, 9 + d + n) \notin Digits

\* C16: for a course name that begins with four digits, two letters, '-',
\* letters, '-' and digits, parse_course_info returns the two letters in upper
\* case followed by the last two digits of the year as semester, and the
\* department in upper case, '-' and the number as course_code; for any other
\* name it returns "" for both.
C16_ParseCourseInfo ==
    (fn = "parse_course_info" /\ pc = "done") =>
        LET shapes == {dn \in (1..Len(arg)) \X (1..Len(arg)) : StandardName(arg, dn[1], dn[2])}
        IN  IF shapes = {}
            THEN ret = [semester |-> "", course_code |-> ""]
            ELSE \A dn \in shapes :
                    /\ ret.semester = Upper(SubSeq(arg, 5, 6)) \o SubSeq(arg, 3, 4)
                    /\ ret.course_code = Upper(SubSeq(arg, 8, 7 + dn[1])) \o "-"
                                         \o SubSeq(arg, 9 + dn[1], 8 + dn[1] + dn[2])

\* the name of the test, with a lower-case variant of it also parsed
C16_Witness ==
    /\ fn = "parse_course_info"
    /\ pc = "done"
    /\ arg = "2026SP-PHIL-123-001H-16W: AI and Ethics"
    /\ ret = [semester |-> "SP26", course_code |-> "PHIL-123"]

\* the directory of the config file load_config finds: the nearest directory
\* from the working directory upwards, the root left out, that holds one
ConfigDirs == {k \in 1..Len(cwd) : Append(SubSeq(cwd, 1, k), ".canvas-config.yaml") \in DOMAIN files}

FoundDir == SubSeq(cwd, 1, Max(ConfigDirs))

\* p taken relative to the directory base
RelativeTo(base, p) == IF Len(p) > 0 /\ Ch(p, 1) = "/" THEN p ELSE PathOf(base) \o "/" \o p

\* C17: get_courses_dir returns the content folder relative to the directory of
\* the config file found: the value of default_folder if that key is set and
\* not empty, else the value of courses_dir if that key is set and not empty,
\* else "courses".
C17_CoursesDir ==
    (fn = "get_courses_dir" /\ pc # "call") =>
        IF ConfigDirs = {} THEN pc = "raised"
        ELSE LET config == files[Append(FoundDir, ".canvas-config.yaml")]
                 has(key) == key \in DOMAIN config /\ config[key] # ""
             IN  /\ pc = "done"
                 /\ has("default_folder") =>
                        ret = RelativeTo(FoundDir, config["default_folder"])
                 /\ (~has("default_folder") /\ has("courses_dir")) =>
                        ret = RelativeTo(FoundDir, config["courses_dir"])
                 /\ (~has("default_folder") /\ ~has("courses_dir")) =>
                        ret = RelativeTo(FoundDir, "courses")

\* the legacy key decides when default_folder is there but empty, and the
\* nearer of two config files is the one read
C17_Witness ==
    /\ fn = "get_courses_dir"
    /\ pc = "done"
    /\ cwd = <<"w", "c", "s">>
    /\ DOMAIN files = {<<"w", ".canvas-config.yaml">>, <<"w", "c", ".canvas-config.yaml">>}
    /\ files[<<"w", "c", ".canvas-config.yaml">>]
           = [default_folder |-> "", courses_dir |-> "legacy-courses"]
    /\ ret = "/w/c/legacy-courses"

IsAlphaNumeric(c) == c \in AsciiLetters \cup Digits

\* P occurs in s, whatever the case of the letters, with no letter or digit
\* right before it and none right after it
WholeToken(P, s) ==
    \E i \in 1..(Len(s) - Len(P) + 1) :
        /\ Lower(SubSeq(s, i, i + Len(P) - 1)) = Lower(P)
        /\ i > 1 => ~IsAlphaNumeric(Ch(s, i - 1))
        /\ i + Len(P) <= Len(s) => ~IsAlphaNumeric(Ch(s, i + Len(P)))

\* C18: get_course_folder takes the folder mapped to a prefix only when the
\* prefix occurs as a whole token in '<course_code> <course_name>', letters
\* compared without case; when no mapped prefix occurs so it takes the default
\* folder; below it the sub-folder is '<semester>-<course_code>-codex-course'
\* when the course name parses and 'codex-course' when it does not.
C18_CourseFolder ==
    (fn = "get_course_folder" /\ pc = "done") =>
        LET config == files[Append(FoundDir, ".canvas-config.yaml")]
            items == IF "course_folders" \in DOMAIN config THEN config["course_folders"]
                     ELSE <<>>
            search == arg.course_code \o " " \o arg.course_name
            hits == {i \in 1..Len(items) : WholeToken(items[i].prefix, search)}
            targets == IF hits = {} THEN {get_default_folder(config)}
                       ELSE {items[i].folder : i \in hits}
            info == parse_course_info(arg.course_name)
            subfolder == IF info.semester = "" THEN "codex-course"
                         ELSE info.semester \o "-" \o info.course_code \o "-codex-course"
        IN  \E target \in targets :
                ret = RelativeTo(FoundDir, target) \o "/" \o subfolder

\* the first case of the test: HIST is mapped, the course is CHIST-101, and
\* the course goes to the default folder
C18_Witness ==
    /\ fn = "get_course_folder"
    /\ pc = "done"
    /\ cwd = Project
    /\ files = (<<"w", "c", ".canvas-config.yaml">> :>
                    [default_folder |-> "faculty-courses",
                     course_folders |-> <<[prefix |-> "HIST", folder |-> "History"]>>])
    /\ arg = [course_code |-> "CHIST-101",
              course_name |-> "2026SP-CHIST-101-001: Cross-History Methods"]
    /\ ret = "/w/c/faculty-courses/SP26-CHIST-101-codex-course"

\* the term occurs in s, whatever the case of the letters, with no letter or
\* digit right before it and none right after it
ClearOccurrence(term, s) ==
    \E i \in 1..(Len(s) - Len(term) + 1) :
        /\ Lower(SubSeq(s, i, i + Len(term) - 1)) = Lower(term)
        /\ i > 1 => ~IsAlphaNumeric(Ch(s, i - 1))
        /\ i + Len(term) <= Len(s) => ~IsAlphaNumeric(Ch(s, i + Len(term)))

\* C19: matches_name(search, target) is true only if target holds the trimmed
\* search term, letters compared without case, at a place where no letter or
\* digit stands right before it or right after it, and the fallback with \b
\* accepts no target that the first pattern rejects.
C19_MatchesName ==
    (fn = "matches_name" /\ pc = "done" /\ ret = TRUE) =>
        /\ ClearOccurrence(Strip(arg.search), arg.target)
        /\ FirstStrategy(Strip(Lower(arg.search)), Lower(arg.target))

IsCreate(r) == r.call = "create_rubric"

\* the create r came back with an id
Answered(r) == IsCreate(r) /\ ~r.failed /\ NewId(r.result) # 0

\* a push that is no dry run, of a readable file of a known course, sends a
\* create if the file has no canvas_id and an update for its canvas_id if it
\* has one
CreateIfNullElseUpdate ==
    (/\ pc = "call" /\ pc' # "call"
     /\ fn = "push_rubric_file"
     /\ ~arg.dry_run
     /\ arg.filepath \in DOMAIN files
     /\ find_course_meta(arg.filepath, files).found) =>
        /\ Len(requests') = Len(requests) + 1
        /\ SubSeq(requests', 1, Len(requests)) = requests
        /\ LET sent == requests'[Len(requests')]
               data == files[arg.filepath]
           IN  IF "canvas_id" \in DOMAIN data
               THEN sent.call = "update_rubric" /\ sent.rubric_id = data["canvas_id"]
               ELSE sent.call = "create_rubric"

\* every call sent after a create is an update for the id that create returned,
\* and after a create the file holds that id
OneCreateThenUpdates ==
    /\ \A i \in 1..Len(requests) :
          IsCreate(requests[i]) =>
              \A j \in (i + 1)..Len(requests) :
                  /\ requests[j].call = "update_rubric"
                  /\ requests[j].rubric_id = NewId(requests[i].result)
    /\ (requests # <<>> /\ IsCreate(requests[Len(requests)])) =>
          /\ "canvas_id" \in DOMAIN files[RubricFile]
          /\ files[RubricFile]["canvas_id"] = NewId(requests[Len(requests)].result)

\* C20 as stated: a push that is no dry run creates a rubric when the file's
\* canvas_id is null and updates it otherwise; after a create the file holds
\* the id returned, so repeated pushes of the file send one create and then
\* only updates for that id.
C20_OneCreate ==
    /\ [][CreateIfNullElseUpdate]_vars
    /\ []OneCreateThenUpdates

\* creates are sent until one comes back with an id; the file then holds that
\* id and every later call is an update for it; a create that fails or comes
\* back without an id leaves canvas_id null
CreatesUntilAnswered ==
    /\ \A i \in 1..Len(requests) :
          IF Answered(requests[i])
          THEN \A j \in (i + 1)..Len(requests) :
                  /\ requests[j].call = "update_rubric"
                  /\ requests[j].rubric_id = NewId(requests[i].result)
          ELSE (IsCreate(requests[i]) /\ i < Len(requests)) => IsCreate(requests[i + 1])
    /\ (requests # <<>> /\ IsCreate(requests[Len(requests)])) =>
          IF Answered(requests[Len(requests)])
          THEN /\ "canvas_id" \in DOMAIN files[RubricFile]
               /\ files[RubricFile]["canvas_id"] = NewId(requests[Len(requests)].result)
          ELSE "canvas_id" \notin DOMAIN files[RubricFile]

\* C20, amended: a push that is no dry run creates a rubric when the file's
\* canvas_id is null and updates it otherwise; a create that comes back with
\* an id stores it in the file, and from then on pushes send only updates for
\* that id; a create that fails or comes back without an id leaves the file as
\* it was, and the next push sends a create again.
C20_CreateUntilAnswered ==
    /\ [][CreateIfNullElseUpdate]_vars
    /\ []CreatesUntilAnswered

\* a create without an id in the response, a second create that returns 41,
\* then an update for 41, and the file holds 41
C20_Witness ==
    /\ Len(requests) = 3
    /\ IsCreate(requests[1]) /\ ~Answered(requests[1]) /\ ~requests[1].failed
    /\ Answered(requests[2]) /\ NewId(requests[2].result) = 41
    /\ requests[3].call = "update_rubric" /\ requests[3].rubric_id = 41
    /\ files[RubricFile]["canvas_id"] = 41
    /\ pc = "done"

\* ---- push and attach-rubric (cli.py): dry runs ----

\* the API methods that change the course on the server (PUT and POST)
MutatingCalls ==
    {"update_page", "update_discussion_topic", "update_assignment", "create_rubric",
     "update_rubric", "attach_rubric_to_assignment"}

\* one more call of an API method in a log of calls
Logged(log, call, course_id, id, result, failed) ==
    Append(log, [call |-> call, course_id |-> course_id, rubric_id |-> id,
                 result |-> result, failed |-> failed])

\* parse_markdown_file(filepath): a file is held as its frontmatter mapping, when
\* it has one, and the text after it
parse_markdown_file(content) ==
    IF "frontmatter" \in DOMAIN content
    THEN [frontmatter |-> content.frontmatter, body |-> Strip(content.body)]
    ELSE [frontmatter |-> <<>>, body |-> content.body]

\* variant: the update is sent in a dry run too
DryRunIgnored(dry_run) == TRUE

\* if not dry_run:
NotDryRun(dry_run) == ~dry_run

\* the topic whose assignment_id is the assignment, 0 when there is none
TopicOf(topics, assignment_id) ==
    LET hits == {i \in 1..Len(topics) : topics[i].assignment_id = assignment_id}
    IN  IF hits = {} THEN 0 ELSE topics[Min(hits)].id

TopicLists ==
    {<<>>, <<[id |-> 9, assignment_id |-> 4]>>,
     <<[id |-> 8, assignment_id |-> 5], [id |-> 9, assignment_id |-> 4]>>}

\* push_file(api, filepath, dry_run)
PushFile ==
    /\ pc = "call" /\ fn = "push_file"
    /\ UnchangedRubric
    /\ UNCHANGED files
    /\ IF arg.filepath \notin DOMAIN files
       THEN Raise /\ UNCHANGED requests
       ELSE LET parsed == parse_markdown_file(files[arg.filepath])
                frontmatter == parsed.frontmatter
                course_meta == find_course_meta(arg.filepath, files)
                course_id == course_meta.meta["canvas_id"]
                body_html == markdown_to_html(parsed.body)
                submission_types == IF "submission_types" \in DOMAIN frontmatter
                                    THEN frontmatter["submission_types"] ELSE {}
                is_discussion == "discussion_topic" \in submission_types
                title == IF "title" \in DOMAIN frontmatter
                         THEN ("title" :> frontmatter["title"]) ELSE <<>>
                Update(log, call, id, update_data) ==
                    IF NotDryRun(arg.dry_run)
                    THEN \E failed \in BOOLEAN :
                            /\ requests' = Logged(log, call, course_id, id, update_data, failed)
                            /\ IF failed THEN Raise ELSE Finish(TRUE)
                    ELSE requests' = log /\ Finish(TRUE)
                Discussion(log, topic_id) ==
                    IF topic_id = 0
                    THEN requests' = log /\ Finish(FALSE)
                    ELSE Update(log, "update_discussion_topic", topic_id,
                                ("message" :> body_html) @@ title)
            IN  IF "canvas_id" \notin DOMAIN frontmatter \/ ~course_meta.found
                THEN Finish(FALSE) /\ UNCHANGED requests
                ELSE IF "canvas_url" \in DOMAIN frontmatter
                THEN Update(requests, "update_page", frontmatter["canvas_url"],
                            ("body" :> body_html))
                ELSE IF is_discussion
                THEN IF "discussion_topic_id" \in DOMAIN frontmatter
                     THEN Discussion(requests, frontmatter["discussion_topic_id"])
                     ELSE \E topics \in TopicLists, failed \in BOOLEAN :
                            LET asked == Logged(requests, "get_discussion_topics",
                                                course_id, 0, topics, failed)
                            IN  IF failed
                                THEN requests' = asked /\ Raise
                                ELSE Discussion(asked, TopicOf(topics, frontmatter["canvas_id"]))
                ELSE IF "submission_types" \in DOMAIN frontmatter
                        \/ "points_possible" \in DOMAIN frontmatter
                THEN Update(requests, "update_assignment", frontmatter["canvas_id"],
                            ("description" :> body_html)
                                @@ [k \in DOMAIN frontmatter \cap {"due_at", "points_possible"}
                                        |-> frontmatter[k]])
                ELSE Finish(FALSE) /\ UNCHANGED requests

\* find_course_by_name: the courses whose name or code holds the term
CourseMatches(courses, name) ==
    SelectSeq(courses, LAMBDA c : \/ Contains(Lower(c.name), Lower(name))
                                  \/ Contains(Lower(c.course_code), Lower(name)))

\* the first rubric whose title holds the term, 0 when there is none
RubricOf(rubrics, rubric_name) ==
    LET hits == {i \in 1..Len(rubrics) :
                    Contains(Lower(rubrics[i].title), Lower(rubric_name))}
    IN  IF hits = {} THEN 0 ELSE rubrics[Min(hits)].id

\* the first assignment that matches the search name, 0 when there is none
AssignmentOf(assignments, search_name) ==
    LET hits == {i \in 1..Len(assignments) :
                    matches_name(search_name, assignments[i].name)}
    IN  IF hits = {} THEN 0 ELSE assignments[Min(hits)].id

\* the loop over assignment_names: the log of calls and the number attached
RECURSIVE AttachEach(_, _, _, _, _, _, _, _)
AttachEach(names, assignments, course_id, rubric_id, a, refused, log, attached_count) ==
    IF names = <<>>
    THEN [requests |-> log, attached_count |-> attached_count]
    ELSE LET assignment_id == AssignmentOf(assignments, Head(names))
             failed == assignment_id \in refused
         IN  IF assignment_id = 0 \/ a.dry_run
             THEN AttachEach(Tail(names), assignments, course_id, rubric_id, a, refused,
                             log, attached_count)
             ELSE AttachEach(Tail(names), assignments, course_id, rubric_id, a, refused,
                             Logged(log, "attach_rubric_to_assignment", course_id, rubric_id,
                                    [association_id |-> assignment_id,
                                     use_for_grading |-> ~a.no_grading], failed),
                             IF failed THEN attached_count ELSE attached_count + 1)

\* what the server may hold
CourseLists ==
    {<<>>, <<[id |-> 77, name |-> "Ethics", course_code |-> "PHIL-123"]>>,
     <<[id |-> 77, name |-> "Ethics", course_code |-> "PHIL-123"],
       [id |-> 78, name |-> "Logic", course_code |-> "PHIL-201"]>>}

RubricLists ==
    {<<>>, <<[id |-> 41, title |-> "Weekly Discussion"], [id |-> 42, title |-> "Essay"]>>}

AssignmentLists ==
    {<<>>, <<[id |-> 4, name |-> "1.4 Discussion"], [id |-> 5, name |-> "2.4 Essay"]>>}

\* attach_rubric(course, rubric_name, assignment_names, no_grading, dry_run): the
\* course and the rubric are given by id or by a term; ret is the number of the
\* closing message
AttachRubric ==
    /\ pc = "call" /\ fn = "attach_rubric"
    /\ UnchangedRubric
    /\ UNCHANGED files
    /\ \E courses \in CourseLists, rubrics \in RubricLists, assignments \in AssignmentLists,
          choice \in 1..2, refused \in SUBSET {4, 5},
          failing \in {"", "get_courses", "get_rubrics", "get_assignments"} :
         LET by_course_id == "id" \in DOMAIN arg.course
             matches == CourseMatches(courses, arg.course["name"])
             asked_courses == IF by_course_id THEN requests
                              ELSE Logged(requests, "get_courses", 0, 0, courses,
                                          failing = "get_courses")
             course_id == IF by_course_id THEN arg.course["id"]
                          ELSE IF Len(matches) = 1 THEN matches[1].id
                          ELSE matches[choice].id
             by_rubric_id == "id" \in DOMAIN arg.rubric_name
             asked_rubrics == IF by_rubric_id THEN asked_courses
                              ELSE Logged(asked_courses, "get_rubrics", course_id, 0, rubrics,
                                          failing = "get_rubrics")
             rubric_id == IF by_rubric_id THEN arg.rubric_name["id"]
                          ELSE RubricOf(rubrics, arg.rubric_name["name"])
             asked_assignments == Logged(asked_rubrics, "get_assignments", course_id, 0,
                                         assignments, failing = "get_assignments")
             attached == AttachEach(arg.assignment_names, assignments, course_id, rubric_id,
                                    arg, refused, asked_assignments, 0)
         IN  IF ~by_course_id /\ (failing = "get_courses" \/ matches = <<>>)
             THEN requests' = asked_courses /\ Raise
             ELSE IF ~by_rubric_id /\ (failing = "get_rubrics" \/ rubric_id = 0)
             THEN requests' = asked_rubrics /\ Raise
             ELSE IF failing = "get_assignments"
             THEN requests' = asked_assignments /\ Raise
             ELSE /\ requests' = attached.requests
                  /\ Finish(IF arg.dry_run THEN Len(arg.assignment_names)
                            ELSE attached.attached_count)

\* Path(file_path).suffix == ".yaml"
IsYaml(name) == Len(name) > 5 /\ At(name, Len(name) - 4, ".yaml")

\* the *.md files of the first directory, two levels below courses_dir, whose
\* name holds the term
ModuleFiles(disk, courses_dir, module_name) ==
    {p \in DOMAIN disk :
        /\ Len(p) = Len(courses_dir) + 3
        /\ SubSeq(p, 1, Len(courses_dir)) = courses_dir
        /\ Contains(Lower(p[Len(p) - 1]), Lower(module_name))
        /\ Len(p[Len(p)]) >= 3 /\ At(p[Len(p)], Len(p[Len(p)]) - 2, ".md")}

\* push(module_name, file_path, dry_run): a file goes to push_rubric_file or to
\* push_file, a module sends its files to push_file one after the other
Push ==
    /\ pc = "command" /\ fn = "push"
    /\ UNCHANGED <<text, html_tables, code_blocks, inline_codes, lines, in_ul, in_ol,
                   result_lines, para_buffer, upstream, cwd, files, requests, ret, paging>>
    /\ IF "file_path" \in DOMAIN arg
       THEN LET filepath == arg["file_path"]
            IN  /\ fn' = IF IsYaml(filepath[Len(filepath)])
                            /\ "rubrics" \in {filepath[i] : i \in 1..Len(filepath)}
                         THEN "push_rubric_file" ELSE "push_file"
                /\ arg' = [filepath |-> filepath, dry_run |-> arg["dry_run"]]
                /\ pc' = "call"
                /\ UNCHANGED parked
       ELSE IF "module_name" \in DOMAIN arg
       THEN LET found == ModuleFiles(files, cwd, arg["module_name"])
                dirs == {Parent(p) : p \in found}
            IN  IF found = {}
                THEN pc' = "raised" /\ UNCHANGED <<fn, arg, parked>>
                ELSE \E dir \in dirs :
                       \E order \in [1..Cardinality({p \in found : Parent(p) = dir})
                                        -> {p \in found : Parent(p) = dir}] :
                          /\ \A i, j \in DOMAIN order : order[i] = order[j] => i = j
                          /\ fn' = "push_file"
                          /\ arg' = [filepath |-> order[1], dry_run |-> arg["dry_run"]]
                          /\ parked' = Tail(order)
                          /\ pc' = "call"
       ELSE pc' = "raised" /\ UNCHANGED <<fn, arg, parked>>

\* the module loop of push: the next file, whatever push_file returned
PushNextFile ==
    /\ pc = "done" /\ fn = "push_file"
    /\ parked # <<>>
    /\ arg' = [arg EXCEPT !.filepath = Head(parked)]
    /\ parked' = Tail(parked)
    /\ pc' = "call"
    /\ ret' = ""
    /\ UNCHANGED <<fn, text, html_tables, code_blocks, inline_codes, lines, in_ul, in_ol,
                   result_lines, para_buffer, upstream, cwd, files, requests, paging>>

\* a courses directory with one course: two modules, a rubric, and a file outside
CoursesDir == <<"courses">>

PushDisk ==
    (<<"courses", "phil", CourseMeta>> :> [canvas_id |-> 77])
    @@ (<<"courses", "phil", "week1", "page.md">> :>
            [frontmatter |-> [canvas_id |-> 1, canvas_url |-> "intro", title |-> "Intro"],
             body |-> "# Hi\n"])
    @@ (<<"courses", "phil", "week1", "talk.md">> :>
            [frontmatter |-> [canvas_id |-> 4, submission_types |-> {"discussion_topic"}],
             body |-> "**go**"])
    @@ (<<"courses", "phil", "week2", "talk2.md">> :>
            [frontmatter |-> [canvas_id |-> 5, submission_types |-> {"discussion_topic"},
                              discussion_topic_id |-> 8, title |-> "Talk"],
             body |-> "- a"])
    @@ (<<"courses", "phil", "week2", "essay.md">> :>
            [frontmatter |-> [canvas_id |-> 6, submission_types |-> {"online_upload"},
                              points_possible |-> 10],
             body |-> "essay"])
    @@ (<<"courses", "phil", "week2", "note.md">> :>
            [frontmatter |-> [canvas_id |-> 7], body |-> "note"])
    @@ (<<"courses", "phil", "week2", "plain.md">> :> [body |-> "plain"])
    @@ (<<"courses", "phil", "rubrics", "essay.yaml">> :> [title |-> "Essay"])
    @@ (<<"tmp", "page.md">> :>
            [frontmatter |-> [canvas_id |-> 1, canvas_url |-> "intro"], body |-> "x"])

PushCommands ==
    {("file_path" :> p) @@ ("dry_run" :> d) :
        p \in DOMAIN PushDisk \ {<<"courses", "phil", CourseMeta>>}, d \in BOOLEAN}
    \cup {("module_name" :> m) @@ ("dry_run" :> d) :
            m \in {"week1", "WEEK", "unit"}, d \in BOOLEAN}
    \cup {("dry_run" :> d) : d \in BOOLEAN}

AttachCommands ==
    [course : {("id" :> 77), ("name" :> "phil"), ("name" :> "ethics"), ("name" :> "law")},
     rubric_name : {("id" :> 41), ("name" :> "essay"), ("name" :> "quiz")},
     assignment_names : {<<"1.4">>, <<"1.4", "2.4">>, <<"9.9">>},
     no_grading : BOOLEAN,
     dry_run : BOOLEAN]

PushInit ==
    /\ \/ fn = "push" /\ pc = "command" /\ arg \in PushCommands
       \/ fn = "attach_rubric" /\ pc = "call" /\ arg \in AttachCommands
    /\ cwd = CoursesDir
    /\ files = PushDisk
    /\ requests = <<>>
    /\ NoPaging
    /\ upstream = <<>>
    /\ parked = <<>>
    /\ Fresh

PushNext ==
    \/ Push
    \/ PushNextFile
    \/ PushFile
    \/ PushRubricFile
    \/ AttachRubric

PushSpec == PushInit /\ [][PushNext]_vars

\* C21: in a dry run no step of push, push_file, push_rubric_file or attach_rubric
\* adds a mutating API call to the calls made so far, and none changes a local file
C21_DryRunFrame ==
    [][arg["dry_run"] =>
          /\ files' = files
          /\ Len(requests') >= Len(requests)
          /\ SubSeq(requests', 1, Len(requests)) = requests
          /\ \A i \in (Len(requests) + 1)..Len(requests') :
                requests'[i].call \notin MutatingCalls]_vars

\* a dry run of push_file on a discussion has asked the server for the topics and
\* returned True
C21_Witness ==
    /\ pc = "done" /\ fn = "push_file"
    /\ arg["dry_run"] /\ ret = TRUE
    /\ requests # <<>>
    /\ requests[Len(requests)].call = "get_discussion_topics"

\* ---- markdown_to_html on documents of list items, tag lines and prose ----

MaxInputLines == 2

\* list items whose text holds emphasis, a link or code; lines that begin with
\* a tag; prose; a blank line; a code span around a fenced block and one around
\* a table
InputLines ==
    {"- *a* b", "* *a* b", "1. [l](u)", "- " \o BT \o "c" \o BT, "x y", "",
     "<div>x</div>", "  <hr>", "<article>x</article>", "**b** y",
     BT \o "a " \o Fence \o "x" \o Fence \o " b" \o BT, BT \o TableA \o BT}

LineInit ==
    /\ fn = M2H
    /\ arg \in Concats(InputLines, NL, MaxInputLines)
    /\ pc = "call"
    /\ upstream = <<>>
    /\ parked = <<>>
    /\ NoFiles
    /\ Fresh

LineNext == MarkdownToHtml

LineSpec == LineInit /\ [][LineNext]_vars

\* the rewriting of emphasis, images and links inside a line
Inline(s) == M_ImagesLinks(M_Emphasis(s))

\* the input lines that are unordered items, and those that are ordered items
BulletLinesOf(s) == {i \in 1..Len(Split(s)) : IsBullet(Strip(Split(s)[i]))}

NumberedLinesOf(s) ==
    {i \in 1..Len(Split(s)) : ~IsBullet(Strip(Split(s)[i])) /\ IsNumbered(Strip(Split(s)[i]))}

\* C22: every input line that starts with "- " or "* " yields one <li> in a
\* <ul>, holding the rest of the line after inline rewriting, and every line that
\* starts with a number and ". " yields one <li> in an <ol>, also when the item
\* text holds emphasis, links or code
C22_ItemPerLine ==
    Returned(M2H) =>
        LET ls == Split(arg)
        IN  /\ Count(ret, "<li>") = Cardinality(BulletLinesOf(arg) \cup NumberedLinesOf(arg))
            /\ \A i \in {j \in BulletLinesOf(arg) : ~Contains(ls[j], BT)} :
                  /\ Contains(ret, "<li>" \o Inline(From(Strip(ls[i]), 3)) \o "</li>")
                  /\ Contains(ret, "<ul>")
            /\ \A i \in {j \in NumberedLinesOf(arg) : ~Contains(ls[j], BT)} :
                  /\ Contains(ret, "<li>" \o Inline(From(Strip(ls[i]),
                                      NumberPrefix(Strip(ls[i])) + 1)) \o "</li>")
                  /\ Contains(ret, "<ol>")

\* the name of the tag a line begins with, "" when it does not begin with a tag
TagNameOf(stripped) ==
    LET from == IF At(stripped, 1, "</") THEN 3 ELSE 2
    IN  IF At(stripped, 1, "<")
        THEN SubSeq(stripped, from, ClassRunEnd(stripped, from, AsciiLetters \cup Digits))
        ELSE ""

\* the tags of a link, of bold, of italic and of an image
PhraseTags == {"a", "strong", "em", "img"}

\* the buffered lines as one paragraph, nothing for an empty buffer
Paragraph(buffer) ==
    IF buffer = <<>> THEN <<>> ELSE <<"<p>" \o Join(buffer, " ") \o "</p>">>

\* C23: in the paragraph loop a blank line flushes the buffer as one <p>; a line
\* that begins with a tag other than an anchor, bold, italic or image tag flushes
\* the buffer and is emitted unchanged; every other line is appended to the
\* buffer; the end of the input flushes the buffer
C23_ParagraphStage ==
    [][pc = "m_para_loop" =>
          IF lines = <<>>
          THEN result_lines' = result_lines \o Paragraph(para_buffer)
          ELSE LET line == Head(lines)
                   stripped == Strip(line)
               IN  IF stripped = ""
                   THEN /\ result_lines' = result_lines \o Paragraph(para_buffer)
                        /\ para_buffer' = <<>>
                   ELSE IF TagNameOf(stripped) # "" /\ Lower(TagNameOf(stripped)) \notin PhraseTags
                   THEN /\ result_lines' = result_lines \o Paragraph(para_buffer) \o <<line>>
                        /\ para_buffer' = <<>>
                   ELSE /\ para_buffer' = Append(para_buffer, stripped)
                        /\ result_lines' = result_lines]_vars

\* the lines that are not blank
NonBlank(ls) == SelectSeq(ls, LAMBDA l : Strip(l) # "")

\* every way to lay out lines in their order, each either unchanged on a line of
\* its own or stripped inside one <p> together with its neighbours
RECURSIVE Layouts(_)
Layouts(ls) ==
    IF ls = <<>> THEN {<<>>}
    ELSE {<<Head(ls)>> \o rest : rest \in Layouts(Tail(ls))}
         \cup UNION {{Paragraph([i \in 1..k |-> Strip(ls[i])]) \o rest :
                        rest \in Layouts(SubSeq(ls, k + 1, Len(ls)))} : k \in 1..Len(ls)}

\* the lines of the stage's input visited so far
Visited == SubSeq(Split(text), 1, Len(Split(text)) - Len(lines))

\* what has been emitted, with the buffer as its open paragraph, is a layout of
\* the non-blank lines visited so far, and no empty <p> has been emitted
InLayout ==
    pc = "m_para_loop" =>
        /\ result_lines \o Paragraph(para_buffer) \in Layouts(NonBlank(Visited))
        /\ \A i \in 1..Len(result_lines) : result_lines[i] # "<p></p>"

\* when the loop ends the output is a layout of all non-blank lines of the input
\* and the buffer is empty
EndsInLayout ==
    (pc = "m_para_loop" /\ pc' = "m_restore_code") =>
        /\ result_lines' \in Layouts(NonBlank(Split(text)))
        /\ text' = Join(result_lines', NL)
        /\ para_buffer' = <<>>

\* C29: the paragraph stage conserves lines: every non-blank line of its input
\* appears in its output once, unchanged on its own line or stripped inside one
\* <p>, in the original order; the buffer is empty when the stage ends and no <p>
\* is emitted for an empty buffer
C29_LinesConserved == []InLayout /\ [][EndsInLayout]_vars

\* the stage has ended on two prose lines, joined in one <p>
C29_Witness ==
    /\ pc = "m_restore_code" /\ fn = M2H
    /\ arg = "x y" \o NL \o "**b** y"
    /\ result_lines = <<"<p>x y <strong>b</strong> y</p>">>
    /\ para_buffer = <<>>

\* ---- html_to_markdown on block quotes, look-alike tag names and entities ----

MaxElements == 2

\* block quotes with a line break, with paragraphs and with plain text; a line
\* break, an image, a link element and a <pre> before elements whose names they
\* begin with; text with the entities of the angle brackets, also around a table
ElementPieces ==
    {"<blockquote>a<br>b</blockquote>", "<blockquote><p>a</p><p>b</p></blockquote>",
     "<blockquote>q</blockquote>", "a<br>b <b>c</b>", "<img src=\"s\"> <i>c</i>",
     "<link rel=x><ul><li>a</li></ul>", "<pre>x</pre><p>y</p>",
     "1 &lt; 2 and 3 &gt; 2", "x &lt; " \o TableA \o " &gt; y", "<p>t</p>"}

ElementInit ==
    /\ fn = H2M
    /\ arg \in Concats(ElementPieces, "", MaxElements)
    /\ pc = "call"
    /\ upstream = <<>>
    /\ parked = <<>>
    /\ NoFiles
    /\ Fresh

ElementNext == HtmlToMarkdown

ElementSpec == ElementInit /\ [][ElementNext]_vars

\* the input is one blockquote element
IsBlockquoteElement(s) ==
    /\ At(Lower(s), 1, "<blockquote>")
    /\ At(Lower(s), Len(s) - Len("</blockquote>") + 1, "</blockquote>")
    /\ Count(Lower(s), "<blockquote") = 1

\* C24: every line of a blockquote's content is emitted with the prefix "> ",
\* whatever elements the blockquote holds, and no line outside a blockquote gets
\* that prefix
C24_QuotePrefix ==
    Returned(H2M) =>
        /\ IsBlockquoteElement(arg) =>
              \A i \in 1..Len(Split(ret)) :
                  Strip(Split(ret)[i]) # "" => At(Split(ret)[i], 1, "> ")
        /\ ~Contains(Lower(arg), "<blockquote") =>
              \A i \in 1..Len(Split(ret)) : ~At(Split(ret)[i], 1, "> ")

\* the number of tags in s whose name begins with the letters of name
TagsNamed(s, name) == Count(Lower(s), "<" \o name)

\* C28: the rewrite for a tag name consumes only elements of exactly that name:
\* the bold and italic rewrites leave every <br>, <blockquote>, <body>, <img>,
\* <iframe> and <embed> to its own stage, the list rewrite every <link>, the
\* paragraph rewrite every <pre>
C28_ExactTagName ==
    [][/\ pc = "h_bolditalic" =>
            \A name \in {"br", "blockquote", "body", "img", "iframe", "embed"} :
                TagsNamed(text', name) = TagsNamed(text, name)
       /\ pc = "h_lists" => TagsNamed(text', "link") = TagsNamed(text, "link")
       /\ pc = "h_paragraphs" => TagsNamed(text', "pre") = TagsNamed(text, "pre")]_vars

\* C30: the catch-all tag stripper deletes markup only: an input without a
\* single tag leaves the stripper as it entered it, and a table placeholder in
\* the buffer is still there after the stripper
C30_OnlyMarkupRemoved ==
    [][pc = "h_striptags" =>
          /\ ~Contains(arg, "<") => text' = text
          /\ \A i \in 0..(Len(html_tables) - 1) :
                Contains(text, Placeholder("HTML_TABLE", i))
                    => Contains(text', Placeholder("HTML_TABLE", i))]_vars

\* the replacements of the restoration: one for every saved fragment
RestoreSteps ==
    ({"CODE_BLOCK"} \X (1..Len(code_blocks))) \cup ({"INLINE_CODE"} \X (1..Len(inline_codes)))
        \cup ({"HTML_TABLE"} \X (1..Len(html_tables)))

\* one replacement: the placeholder of a fragment by the restored fragment
RestoreStep(t, step) ==
    IF step[1] = "CODE_BLOCK"
    THEN Replace(t, Placeholder("CODE_BLOCK", step[2] - 1),
                 "<pre><code>" \o Escape(code_blocks[step[2]]) \o "</code></pre>")
    ELSE IF step[1] = "INLINE_CODE"
    THEN Replace(t, Placeholder("INLINE_CODE", step[2] - 1),
                 "<code>" \o Escape(inline_codes[step[2]]) \o "</code>")
    ELSE Replace(t, TagPlaceholder(step[2] - 1), html_tables[step[2]])

\* the replacements made in a given order
RECURSIVE RestoredIn(_, _)
RestoredIn(t, order) ==
    IF order = <<>> THEN t ELSE RestoredIn(RestoreStep(t, Head(order)), Tail(order))

\* every order of the replacements
RestoreOrders ==
    {order \in [1..Cardinality(RestoreSteps) -> RestoreSteps] :
        \A i, j \in DOMAIN order : order[i] = order[j] => i = j}

\* C25: for an input without placeholder-shaped strings the restored text does
\* not depend on the order of the replacements, within a kind or across kinds
C25_OrderIndependent ==
    (fn = M2H /\ pc = "m_restore_code" /\ ~HasPlaceholder(arg)) =>
        \A order \in RestoreOrders :
            RestoredIn(text, order)
                = M_RestoreTables(M_RestoreCode(text, code_blocks, inline_codes), html_tables)

\* ---- get_course_folder on configurations whose entries come in every order ----

MaxFolders == 3

FolderEntries ==
    {[prefix |-> "phil", folder |-> "CWI/Philosophy"],
     [prefix |-> "PHIL-123", folder |-> "Ethics"],
     [prefix |-> "HIST", folder |-> "History"],
     [prefix |-> "Sandbox", folder |-> "Sandboxes"]}

\* the sequences of up to n different entries
Orderings(entries, n) ==
    UNION {{order \in [1..k -> entries] :
               \A i, j \in 1..k : order[i] = order[j] => i = j} : k \in 0..n}

FolderInit ==
    /\ fn = "get_course_folder"
    /\ arg \in [course_code : {"PHIL-200", "CHIST-101"},
                course_name : {"Sandbox (HIST)", "2026sp-Phil-123-001H-16W: AI and Ethics"}]
    /\ pc = "call"
    /\ cwd = Project
    /\ \E items \in Orderings(FolderEntries, MaxFolders) :
         files = (ConfigFile(Project) :> [course_folders |-> items])
    /\ requests = <<>>
    /\ NoPaging
    /\ upstream = <<>>
    /\ parked = <<>>
    /\ Fresh

FolderNext == GetCourseFolder

FolderSpec == FolderInit /\ [][FolderNext]_vars

\* the entries of the configuration in use
ConfiguredFolders == CourseFolders(files[ConfigFile(FoundDir)])

\* the entries whose prefix occurs in the course as a whole token
MatchingFolders ==
    {i \in 1..Len(ConfiguredFolders) :
        WholeToken(ConfiguredFolders[i].prefix, arg.course_code \o " " \o arg.course_name)}

\* those of them with a prefix of the greatest length
LongestMatching ==
    {i \in MatchingFolders :
        \A j \in MatchingFolders :
            Len(ConfiguredFolders[j].prefix) <= Len(ConfiguredFolders[i].prefix)}

\* the path returned when the course goes to the folder target
FolderPathFor(target) ==
    LET info == parse_course_info(arg.course_name)
        subfolder == IF info.semester = "" THEN "codex-course"
                     ELSE info.semester \o "-" \o info.course_code \o "-codex-course"
    IN  RelativeTo(FoundDir, target) \o "/" \o subfolder

\* C26 as amended: get_course_folder chooses the folder of the longest matching
\* prefix, and among several matching prefixes of that length the one that
\* comes first in the configuration; the default folder when none matches
C26_LongestFirstListed ==
    (fn = "get_course_folder" /\ pc = "done") =>
        ret = FolderPathFor(IF MatchingFolders = {}
                            THEN get_default_folder(files[ConfigFile(FoundDir)])
                            ELSE ConfiguredFolders[Min(LongestMatching)].folder)

\* C26 as stated: the folder chosen is that of the longest matching prefix and
\* is the same for every order of the entries of the configuration
C26_AnyOrder ==
    (fn = "get_course_folder" /\ pc = "done") =>
        \A order \in Orderings({ConfiguredFolders[i] : i \in 1..Len(ConfiguredFolders)},
                               Len(ConfiguredFolders)) :
            Len(order) = Len(ConfiguredFolders) =>
                ret = CourseFolderPath([found |-> TRUE,
                                        config |-> [course_folders |-> order],
                                        config_dir |-> PathOf(FoundDir)],
                                       arg.course_code, arg.course_name)

\* HIST is listed before the longer PHIL-123 and both match: the course has gone
\* to the folder of PHIL-123
C26_Witness ==
    /\ fn = "get_course_folder" /\ pc = "done"
    /\ ConfiguredFolders = <<[prefix |-> "HIST", folder |-> "History"],
                             [prefix |-> "phil", folder |-> "CWI/Philosophy"],
                             [prefix |-> "PHIL-123", folder |-> "Ethics"]>>
    /\ arg = [course_code |-> "CHIST-101",
              course_name |-> "2026sp-Phil-123-001H-16W: AI and Ethics"]
    /\ ret = "/w/c/Ethics/SP26-PHIL-123-codex-course"

\* ---- CanvasAPI._paginate (api.py) ----

MaxPages == 2

\* s.split(sep)
RECURSIVE SplitOn(_, _)
SplitOn(s, sep) ==
    LET at == Find(s, sep, 1)
    IN  IF at = 0 THEN <<s>>
        ELSE <<SubSeq(s, 1, at - 1)>> \o SplitOn(SubSeq(s, at + Len(sep), Len(s)), sep)

\* s.strip(chars)
StripChars(s, chars) ==
    LET kept == {i \in 1..Len(s) : Ch(s, i) \notin chars}
    IN  IF kept = {} THEN "" ELSE SubSeq(s, Min(kept), Max(kept))

\* variant: the URL of the first entry of the Link header, whatever its rel
FirstLinkUrl(headers) ==
    IF "Link" \in DOMAIN headers
    THEN StripChars(SplitOn(SplitOn(headers["Link"], ",")[1], ";")[1], {" ", "<", ">"})
    ELSE ""

\* the URL the loop goes on with, "" for None: the first entry of the Link
\* header that holds rel="next", cut at its first ";" and stripped of " <>"
NextUrl(headers) ==
    IF "Link" \in DOMAIN headers
    THEN LET links == SplitOn(headers["Link"], ",")
             hits == {i \in 1..Len(links) : Contains(links[i], "rel=\"next\"")}
         IN  IF hits = {} THEN ""
             ELSE StripChars(SplitOn(links[Min(hits)], ";")[1], {" ", "<", ">"})
    ELSE ""

\* endpoint.lstrip('/')
LStripSlash(endpoint) ==
    LET kept == {i \in 1..Len(endpoint) : Ch(endpoint, i) # "/"}
    IN  IF kept = {} THEN "" ELSE SubSeq(endpoint, Min(kept), Len(endpoint))

ApiUrl == "https://c/api/v1"

\* params.setdefault("per_page", 100)
WithPerPage(given) ==
    IF "per_page" \in DOMAIN given THEN given ELSE given @@ ("per_page" :> 100)

UnchangedPaging ==
    UNCHANGED <<fn, arg, text, html_tables, code_blocks, inline_codes, lines, in_ul,
                in_ol, result_lines, para_buffer, upstream, parked, cwd, files, server>>

\* the first next() on the generator: the code before the loop
Paginate_Enter ==
    /\ pc = "call" /\ fn = "_paginate"
    /\ params' = WithPerPage(arg.params)
    /\ page_url' = ApiUrl \o "/" \o LStripSlash(arg.endpoint)
    /\ pc' = "while"
    /\ ret' = <<>>
    /\ UNCHANGED <<response, item_index, requests>>
    /\ UnchangedPaging

\* while url: response = self.session.get(url, params=params);
\* response.raise_for_status()
Paginate_Get ==
    /\ pc = "while" /\ fn = "_paginate"
    /\ page_url # ""
    /\ Len(requests) <= MaxPages
    /\ requests' = Append(requests, [call |-> "get", url |-> page_url, params |-> params])
    /\ response' = server[page_url]
    /\ item_index' = 0
    /\ pc' = IF server[page_url].ok THEN "for" ELSE "raised"
    /\ UNCHANGED <<page_url, params, ret>>
    /\ UnchangedPaging

\* the loop ends when url is None
Paginate_Return ==
    /\ pc = "while" /\ fn = "_paginate"
    /\ page_url = ""
    /\ pc' = "done"
    /\ UNCHANGED <<page_url, params, response, item_index, requests, ret>>
    /\ UnchangedPaging

\* for item in response.json(): yield item; ret holds the items yielded
Paginate_Yield ==
    /\ pc = "for" /\ fn = "_paginate"
    /\ item_index < Len(response.json)
    /\ ret' = Append(ret, response.json[item_index + 1])
    /\ item_index' = item_index + 1
    /\ UNCHANGED <<pc, page_url, params, response, requests>>
    /\ UnchangedPaging

\* after the last item: url = None; params = {}; the Link header is searched
Paginate_Next ==
    /\ pc = "for" /\ fn = "_paginate"
    /\ item_index = Len(response.json)
    /\ page_url' = NextUrl(response.headers)
    /\ params' = <<>>
    /\ pc' = "while"
    /\ UNCHANGED <<response, item_index, requests, ret>>
    /\ UnchangedPaging

\* the caller stops iterating (a break or a return inside its loop)
Paginate_Close ==
    /\ pc = "for" /\ fn = "_paginate"
    /\ pc' = "closed"
    /\ UNCHANGED <<page_url, params, response, item_index, requests, ret>>
    /\ UnchangedPaging

Paginate ==
    \/ Paginate_Enter
    \/ Paginate_Get
    \/ Paginate_Return
    \/ Paginate_Yield
    \/ Paginate_Next
    \/ Paginate_Close

\* the URL of page k of a listing: the first page is the endpoint, the later
\* ones are the links the server hands out
PageUrl(k) ==
    IF k = 1 THEN ApiUrl \o "/courses"
    ELSE ApiUrl \o "/courses?page=" \o Str(k) \o "&per_page=100"

\* the Link header of page k of n, in one of the layouts servers use
LinkHeader(k, n, layout) ==
    LET current == "<" \o PageUrl(k) \o ">; rel=\"current\""
        next == "<" \o PageUrl(k + 1) \o ">; rel=\"next\""
        first == "<" \o PageUrl(1) \o ">; rel=\"first\""
        last == "<" \o PageUrl(n) \o ">; rel=\"last\""
        sep == IF layout = "spaced" THEN ", " ELSE ","
    IN  IF k < n
        THEN IF layout = "next_first"
             THEN next \o sep \o current \o sep \o first \o sep \o last
             ELSE current \o sep \o next \o sep \o first \o sep \o last
        ELSE current \o sep \o first \o sep \o last

\* the items of page k when it holds count items
PageItems(k, count) == [i \in 1..count |-> 10 * k + i]

\* a listing of n pages: what the server answers at each of their URLs. The last
\* page comes without a Link header when bare is set, page broken fails
Listing(counts, layout, bare, broken) ==
    [u \in {PageUrl(k) : k \in 1..Len(counts)} |->
        LET k == CHOOSE j \in 1..Len(counts) : PageUrl(j) = u
        IN  [ok |-> k # broken,
             json |-> PageItems(k, counts[k]),
             headers |-> IF k = Len(counts) /\ bare THEN <<>>
                         ELSE ("Link" :> LinkHeader(k, Len(counts), layout)),
             page |-> k]]

Listings ==
    {Listing(counts, layout, bare, broken) :
        counts \in UNION {[1..n -> 0..2] : n \in 1..MaxPages},
        layout \in {"canvas", "next_first", "spaced"},
        bare \in BOOLEAN,
        broken \in 0..MaxPages}

PageInit ==
    /\ fn = "_paginate"
    /\ arg \in [endpoint : {"courses", "/courses"},
                params : {<<>>, ("per_page" :> 50), ("include[]" :> "term")}]
    /\ pc = "call"
    /\ server \in Listings
    /\ page_url = ""
    /\ params = <<>>
    /\ response = <<>>
    /\ item_index = 0
    /\ cwd = <<>>
    /\ files = <<>>
    /\ requests = <<>>
    /\ upstream = <<>>
    /\ parked = <<>>
    /\ Fresh

PageNext == Paginate

PageSpec == PageInit /\ [][PageNext]_vars

\* the number of pages of the listing the server holds
PageCount == Cardinality(DOMAIN server)

\* the items of the pages from the first to page k, in page order then item order
RECURSIVE ItemsThrough(_)
ItemsThrough(k) == IF k = 0 THEN <<>> ELSE ItemsThrough(k - 1) \o server[PageUrl(k)].json

\* the page the i-th request of the log went to
PageOf(i) == server[requests[i].url].page

\* C27: _paginate yields the items of the pages once each, in page order then
\* item order; the first request goes to the endpoint with the caller's params
\* and per_page defaulting to 100, every later request to the URL of the
\* rel="next" entry of the previous response's Link header without params; the
\* generator ends after the first response without a next link; a failed
\* response raises before an item of its page is yielded
C27_Paginated ==
    (fn = "_paginate" /\ pc # "call") =>
        /\ \A i \in 1..Len(requests) :
              IF i = 1
              THEN /\ requests[i].url = PageUrl(1)
                   /\ requests[i].params
                        = (IF "per_page" \in DOMAIN arg.params THEN arg.params
                           ELSE arg.params @@ ("per_page" :> 100))
              ELSE /\ PageOf(i - 1) < PageCount
                   /\ server[requests[i - 1].url].ok
                   /\ requests[i].url = PageUrl(PageOf(i - 1) + 1)
                   /\ requests[i].params = <<>>
        /\ pc = "for" =>
              ret = ItemsThrough(PageOf(Len(requests)) - 1)
                        \o SubSeq(response.json, 1, item_index)
        /\ pc = "while" /\ requests # <<>> => ret = ItemsThrough(PageOf(Len(requests)))
        /\ pc = "done" =>
              /\ PageOf(Len(requests)) = PageCount
              /\ ret = ItemsThrough(PageCount)
        /\ pc = "raised" =>
              /\ ~server[requests[Len(requests)].url].ok
              /\ ret = ItemsThrough(PageOf(Len(requests)) - 1)
        /\ (pc \in {"for", "done"} /\ requests # <<>>) => server[requests[Len(requests)].url].ok

\* two pages have been listed to the end: three items in order, two requests, the
\* second without params
C27_Witness ==
    /\ fn = "_paginate" /\ pc = "done"
    /\ ret = <<11, 12, 21>>
    /\ Len(requests) = 2
    /\ requests[1].params = ("include[]" :> "term") @@ ("per_page" :> 100)
    /\ requests[2] = [call |-> "get", url |-> PageUrl(2), params |-> <<>>]

====
